---- MODULE Spec2Model ----
(***************************************************************************)
(* A model of the MindCache core (rust-core): the request validator and    *)
(* its token bucket, the memory service (save, batch save, update,         *)
(* delete, recall), the decay engine's run, and the storage layer's write *)
(* transactions over the memories table, its FTS5 mirror and the sessions  *)
(* table.                                                                  *)
(*                                                                         *)
(* Conventions.                                                            *)
(*  - Time is counted in whole minutes (now); one hour is HourMinutes.     *)
(*  - importance is kept in units of 1/600: a tenth is Tenth units, so the *)
(*    range check [0.0, 1.0] is 0..ImportanceMax and the mean of a group   *)
(*    of up to six importances given in tenths is exact.                   *)
(*  - A content string is the set of tokens the FTS5 tokenizer yields for  *)
(*    it, together with Whitespace when the string holds nothing but white *)
(*    space: the empty set is the empty string "", {Whitespace} is " ".     *)
(*  - An absent Option is NoValue; an empty id is EmptyId, an empty string *)
(*    is "".                                                               *)
(*  - SQL statements are modelled by their relational effect on the       *)
(*    tables.  Foreign keys are enforced: a memory needs the users row of  *)
(*    its user_id and the sessions row of its session_id, a session the    *)
(*    users row of its user_id.  No statement of the crate inserts into    *)
(*    users: its rows are those the database file holds when it is opened. *)
(*  - recursive_triggers is a property of the SQLite build, chosen once in *)
(*    Init; the scan direction of a query plan is chosen per query.        *)
(***************************************************************************)
EXTENDS Integers, Sequences, FiniteSets, TLC

(***************************************************************************)
(* Bounds of the model.                                                    *)
(***************************************************************************)
MaxIds == 2
MaxTicks == 1
MaxFaults == 3
MaxRowid == 3
MaxDecayIds == 3
MaxDecayRowid == 3
MaxAgingIds == 6
MaxAgingRowid == 5
MaxFaultyIds == 4
MaxFaultyRowid == 3
MaxQuotaIds == 3
MaxQuotaRowid == 3
MaxSessionIds == 3
MaxSessionRowid == 3
VectorDimension == 2
MaxComponent == 1
MaxVectorIds == 2
MaxVectorRowid == 2
MaxSchemaIds == 3
MaxSchemaRowid == 2
MaxHandles == 2
MaxFfiIds == 1
MaxAcquirers == 2
MaxGranted == 7
MaxRaceIds == 1
MaxRaceRowid == 3

(***************************************************************************)
(* Program constants.                                                      *)
(***************************************************************************)
max_attempts == 3
min_connections == 2
HourMinutes == 60
SummaryAgeDays == 7
SummaryMinMemories == 5
Tenth == 60
ImportanceMax == 10 * Tenth
DefaultImportance == 5 * Tenth
MaxTtlHours == 8760
MaxMetadataSize == 10000

NoValue == 0 - 1
EmptyId == 0
MIN_UTC == 0 - 2

Ids == 1..MaxIds
UserIds == {"u1", "u2"}
SessionIds == {"s1", "s2"}
Vocabulary == {"apple", "banana"}
Services == {"memory", "session", "decay"}
Threads == {1}

Max(S) == CHOOSE x \in S : \A y \in S : y <= x
Min(S) == CHOOSE x \in S : \A y \in S : x <= y
MinOf(a, b) == IF a <= b THEN a ELSE b
MaxOf(a, b) == IF a >= b THEN a ELSE b
Ran(q) == {q[i] : i \in DOMAIN q}

(***************************************************************************)
(* MemoryItem validation (database/models.rs).                             *)
(***************************************************************************)
\* The mark of a string of white space.
Whitespace == " "

\* str::trim, and the words split_whitespace and the FTS5 tokenizer find.
Trim(content) == content \ {Whitespace}

\* #[derive(Validate)] on MemoryItem: the field attributes; length(min = 1)
\* counts the characters of content, white space included.
validate(m) ==
    /\ m.user_id # ""
    /\ m.session_id # ""
    /\ m.content # {}
    /\ m.importance >= 0 /\ m.importance <= ImportanceMax
    /\ (m.ttl_hours # NoValue => (m.ttl_hours >= 1 /\ m.ttl_hours <= MaxTtlHours))

\* Byte length of a metadata key or value.
StrLen(s) == IF s = "BIG" THEN MaxMetadataSize + 1 ELSE 1

RECURSIVE SumLen(_)
SumLen(S) ==
    IF S = {} THEN 0
    ELSE LET p == CHOOSE x \in S : TRUE
         IN  StrLen(p[1]) + StrLen(p[2]) + SumLen(S \ {p})

\* MemoryItem::validate_custom; metadata is a set of <<key, value>> pairs.
validate_custom(m) ==
    /\ Trim(m.content) # {}
    /\ SumLen(m.metadata) <= MaxMetadataSize
    /\ ~(m.is_compressed /\ m.compressed_from = <<>>)
    /\ ~(~m.is_compressed /\ m.compressed_from # <<>>)

validate_memory_item_accept_all(m) == TRUE

\* RequestValidator::validate_memory_item.
validate_memory_item(m) == validate(m) /\ validate_custom(m)

\* RequestValidator::validate_batch_size.
validate_batch_size(cfg, size) == size <= cfg.max_batch_size

clamp(x) == IF x < 0 THEN 0 ELSE IF x > ImportanceMax THEN ImportanceMax ELSE x

(***************************************************************************)
(* The token bucket (core/mod.rs).  A limiter is [tokens, last_refill,     *)
(* max_tokens, refill_rate], with poisoned telling whether a thread has     *)
(* panicked while it held the mutex of last_refill.                         *)
(***************************************************************************)
RateLimiter_new(max_tokens, refill_rate, t) ==
    [tokens |-> max_tokens, last_refill |-> t,
     max_tokens |-> max_tokens, refill_rate |-> refill_rate, poisoned |-> FALSE]

\* (self.refill_rate / 60).max(1).
TokensPerMinute(l) == MaxOf(l.refill_rate \div 60, 1)

\* The u32 arithmetic of refill_tokens.  duration.num_minutes() as u32 turns
\* a duration of -k minutes into 2^32 - k, which is written -k here; the
\* product with TokensPerMinute then wraps when that is 2 or more, and the
\* sum with the current tokens wraps when it reaches 2^32.
RefillOverflows(l, minutes_elapsed, current_tokens) ==
    /\ minutes_elapsed < 0
    /\ \/ TokensPerMinute(l) >= 2
       \/ current_tokens + minutes_elapsed * TokensPerMinute(l) >= 0

\* (current_tokens + tokens_to_add).min(self.max_tokens), the sum wrapped.
RefilledTokens(l, minutes_elapsed, current_tokens) ==
    LET sum == current_tokens + minutes_elapsed * TokensPerMinute(l)
    IN  IF sum < 0 THEN l.max_tokens ELSE MinOf(sum, l.max_tokens)

\* RateLimiter::refill_tokens run by one thread at a time t that is not
\* before last_refill.
refill_tokens(l, t) ==
    LET minutes_elapsed == t - l.last_refill
        tokens_to_add == minutes_elapsed * TokensPerMinute(l)
    IN  IF minutes_elapsed > 0
        THEN [l EXCEPT !.tokens = MinOf(l.tokens + tokens_to_add, l.max_tokens),
                       !.last_refill = t]
        ELSE l

try_acquire_always(l, n, t) ==
    LET r == refill_tokens(l, t)
    IN  [granted |-> TRUE, limiter |-> [r EXCEPT !.tokens = MaxOf(r.tokens - n, 0)]]

\* RateLimiter::try_acquire, run by one thread.
try_acquire(l, n, t) ==
    LET r == refill_tokens(l, t)
    IN  IF r.tokens >= n
        THEN [granted |-> TRUE, limiter |-> [r EXCEPT !.tokens = r.tokens - n]]
        ELSE [granted |-> FALSE, limiter |-> r]

\* RequestValidator::validate_request: Ok iff the limiter is absent or grants.
validate_request(cfg, l, n, t) ==
    IF cfg.enable_request_limits
    THEN try_acquire(l, n, t)
    ELSE [granted |-> TRUE, limiter |-> l]

(***************************************************************************)
(* JSON text of the metadata column (serde_json): the map is written as a  *)
(* sequence of its entries and parsed back into a map.                     *)
(***************************************************************************)
RECURSIVE to_json(_)
to_json(S) ==
    IF S = {} THEN <<>>
    ELSE LET p == CHOOSE x \in S : TRUE
         IN  <<p>> \o to_json(S \ {p})

from_json_default(q) == {}

\* serde_json::from_str(..).unwrap_or_default() on the text to_json wrote.
from_json(q) == {q[i] : i \in 1..Len(q)}

(***************************************************************************)
(* The storage: D = [memories, fts, sessions].  memories is the set of     *)
(* rows of the memories table, each with its rowid; fts is the FTS5 index  *)
(* as a set of <<rowid, token>> entries; sessions maps a session id to its *)
(* last_active.                                                            *)
(***************************************************************************)
\* expires_at is stored as text with a fraction of a second and the offset
\* "+00:00", and datetime('now') has neither: at the instant expires_at the
\* stored text is still the greater one.
\* expires_at IS NOT NULL AND expires_at <= datetime('now').
Expired(r, t) == r.expires_at # NoValue /\ r.expires_at < t
\* expires_at IS NULL OR expires_at > datetime('now').
Active(r, t) == r.expires_at = NoValue \/ r.expires_at >= t

RowsById(D, id) == {r \in D.memories : r.id = id}
FtsEntries(rowid, content) == {<<rowid, tok>> : tok \in Trim(content)}

\* A row without AUTOINCREMENT gets the largest rowid in the table plus one.
NextRowid(mem) == IF mem = {} THEN 1 ELSE Max({r.rowid : r \in mem}) + 1

MemoryRow_inflated(m, id, t) ==
    [id |-> id, rowid |-> 0, user_id |-> m.user_id, session_id |-> m.session_id,
     content |-> m.content, metadata |-> to_json(m.metadata),
     created_at |-> m.created_at, updated_at |-> t,
     expires_at |-> IF m.ttl_hours = NoValue THEN NoValue
                    ELSE t + m.ttl_hours * HourMinutes,
     importance |-> m.importance + Tenth, ttl_hours |-> m.ttl_hours,
     is_compressed |-> m.is_compressed, compressed_from |-> m.compressed_from]

\* The row Database::save_memory binds to the INSERT: updated_at is its own
\* now, expires_at is now + ttl_hours.
MemoryRow(m, id, t) ==
    [id |-> id, rowid |-> 0, user_id |-> m.user_id, session_id |-> m.session_id,
     content |-> m.content, metadata |-> to_json(m.metadata),
     created_at |-> m.created_at, updated_at |-> t,
     expires_at |-> IF m.ttl_hours = NoValue THEN NoValue
                    ELSE t + m.ttl_hours * HourMinutes,
     importance |-> m.importance, ttl_hours |-> m.ttl_hours,
     is_compressed |-> m.is_compressed, compressed_from |-> m.compressed_from]

\* The MemoryItem a SELECT builds from a row.
row_to_item(r) ==
    [id |-> r.id, user_id |-> r.user_id, session_id |-> r.session_id,
     content |-> r.content, metadata |-> from_json(r.metadata),
     created_at |-> r.created_at, updated_at |-> r.updated_at,
     expires_at |-> r.expires_at, importance |-> r.importance,
     ttl_hours |-> r.ttl_hours, is_compressed |-> r.is_compressed,
     compressed_from |-> r.compressed_from]

\* INSERT OR REPLACE INTO memories: the conflicting row is deleted (its delete
\* trigger fires only with recursive triggers), the new row is inserted with a
\* new rowid and the insert trigger adds its tokens to the index.
InsertOrReplaceMemory(D, row, rt) ==
    LET old == RowsById(D, row.id)
        new == [row EXCEPT !.rowid = NextRowid(D.memories)]
        dropped == UNION {FtsEntries(r.rowid, r.content) : r \in old}
        fts1 == IF rt THEN D.fts \ dropped ELSE D.fts
    IN  [D EXCEPT !.memories = (D.memories \ old) \cup {new},
                  !.fts = fts1 \cup FtsEntries(new.rowid, new.content)]

\* INSERT OR REPLACE INTO memories_fts (rowid, content): FTS5 first removes the
\* entry of that rowid, reading its tokens from the content table, then adds
\* the tokens of the bound content.
InsertOrReplaceFts(D, id, content) ==
    LET rows == RowsById(D, id)
        removed == UNION {FtsEntries(r.rowid, r.content) : r \in rows}
        added == UNION {FtsEntries(r.rowid, content) : r \in rows}
    IN  [D EXCEPT !.fts = (D.fts \ removed) \cup added]

\* UPDATE sessions SET last_active = ?1 WHERE id = ?2.
TouchSession(D, session_id, t) ==
    IF session_id \in DOMAIN D.sessions
    THEN [D EXCEPT !.sessions[session_id] = t]
    ELSE D

\* DELETE FROM memories_fts WHERE rowid IN (the rowids of rows).
DeleteFtsOf(D, rows) ==
    [D EXCEPT !.fts = D.fts \ UNION {FtsEntries(r.rowid, r.content) : r \in rows}]

\* DELETE FROM memories for rows; the delete trigger removes their tokens.
DeleteRows(D, rows) ==
    [D EXCEPT !.memories = D.memories \ rows,
              !.fts = D.fts \ UNION {FtsEntries(r.rowid, r.content) : r \in rows}]

ExpiredRows(D, t) == {r \in D.memories : Expired(r, t)}

\* Database::get_memory: Some(item) is {item}, None is {}.
get_memory(D, id, t) ==
    {row_to_item(r) : r \in {x \in RowsById(D, id) : Active(x, t)}}

(***************************************************************************)
(* The query engine (Database::build_recall_query, recall_memories).  A    *)
(* filter is [user_id, session_id, keywords, date_from, date_to,           *)
(* min_importance, limit, offset]; an absent string is NoString, an absent *)
(* keyword list is {}.                                                     *)
(***************************************************************************)
NoString == "*"
DefaultLimit == 50
MinLimit == 1
MaxLimit == 1000
MaxOffset == 1000000

\* #[derive(Validate)] on QueryFilter.
validate_filter(f) ==
    /\ (f.limit # NoValue => (f.limit >= MinLimit /\ f.limit <= MaxLimit))
    /\ (f.offset # NoValue => (f.offset >= 0 /\ f.offset <= MaxOffset))
    /\ (f.min_importance # NoValue =>
            (f.min_importance >= 0 /\ f.min_importance <= ImportanceMax))

\* memories.rowid IN (SELECT rowid FROM memories_fts WHERE memories_fts MATCH
\* 'k1 OR k2 ...').
FtsMatch(D, r, keywords) == \E k \in keywords : <<r.rowid, k>> \in D.fts

\* The WHERE clause build_recall_query composes.
WhereClause(D, f, t, r) ==
    /\ Active(r, t)
    /\ r.is_compressed = FALSE
    /\ (f.user_id # NoString => r.user_id = f.user_id)
    /\ (f.session_id # NoString => r.session_id = f.session_id)
    /\ (f.date_from # NoValue => r.created_at >= f.date_from)
    /\ (f.date_to # NoValue => r.created_at <= f.date_to)
    /\ (f.min_importance # NoValue => r.importance >= f.min_importance)
    /\ (f.keywords # {} => FtsMatch(D, r, f.keywords))

Matching(D, f, t) == {r \in D.memories : WhereClause(D, f, t, r)}

\* ORDER BY created_at DESC, importance DESC.  Rows equal on both keys come
\* out in the scan order of the plan: by rowid, ascending or descending.
Before(a, b, pd) ==
    \/ a.created_at > b.created_at
    \/ a.created_at = b.created_at /\ a.importance > b.importance
    \/ /\ a.created_at = b.created_at /\ a.importance = b.importance
       /\ IF pd THEN a.rowid > b.rowid ELSE a.rowid < b.rowid

RECURSIVE OrderBy(_, _)
OrderBy(S, pd) ==
    IF S = {} THEN <<>>
    ELSE LET first == CHOOSE a \in S : \A b \in S \ {a} : Before(a, b, pd)
         IN  <<first>> \o OrderBy(S \ {first}, pd)

\* LIMIT ?n OFFSET ?m applied to the ordered rows.
LimitOffset(q, limit, offset) ==
    LET off == IF offset = NoValue THEN 0 ELSE offset
        upto == IF limit = NoValue THEN Len(q) ELSE MinOf(Len(q), off + limit)
    IN  SubSeq(q, off + 1, upto)

CeilDiv(a, b) == (a + b - 1) \div b
SaturatingSub(a, b) == IF a >= b THEN a - b ELSE 0

\* PaginatedResponse::empty(); error marks an Err returned in its place.
EmptyPage ==
    [error |-> FALSE, data |-> <<>>, total_count |-> 0, page |-> 0,
     per_page |-> DefaultLimit, total_pages |-> 0, has_next |-> FALSE,
     has_prev |-> FALSE]

\* An Err of a read, where a PaginatedResponse is expected.
ErrorPage == [EmptyPage EXCEPT !.error = TRUE]

\* The query text build_recall_query assembles: OFFSET is appended whenever
\* offset is Some, and SQLite accepts OFFSET only after LIMIT.
QuerySyntaxOk(f) == f.limit # NoValue \/ f.offset = NoValue

\* The count query is prepared without LIMIT and OFFSET and is given the
\* parameters of the page query, the values of LIMIT and OFFSET included:
\* binding succeeds only when the filter has neither.
BindsCountQuery(f) == f.limit = NoValue /\ f.offset = NoValue

\* An Err where a count is expected (rusqlite's InvalidParameterCount).
InvalidParameterCount == 0 - 1

\* The count query of recall_memories, run on storage D at time t.
count_query(D, f, t) ==
    IF BindsCountQuery(f) THEN Cardinality(Matching(D, f, t))
    ELSE InvalidParameterCount

\* The page query of recall_memories, run on storage D at time t.
page_query(D, f, t, pd) ==
    LET slice == LimitOffset(OrderBy(Matching(D, f, t), pd), f.limit, f.offset)
    IN  [i \in 1..Len(slice) |-> row_to_item(slice[i])]

\* The PaginatedResponse recall_memories builds from the two results.
Response(f, total_count, data) ==
    LET per_page == IF f.limit = NoValue THEN DefaultLimit ELSE f.limit
        page == IF f.offset = NoValue THEN 0 ELSE f.offset \div per_page
        total_pages == CeilDiv(total_count, per_page)
    IN  [error |-> FALSE, data |-> data,
         total_count |-> total_count, page |-> page, per_page |-> per_page,
         total_pages |-> total_pages,
         has_next |-> page < SaturatingSub(total_pages, 1),
         has_prev |-> page > 0]

\* Database::recall_memories when nothing is written between its two
\* queries: the filter is validated, then the count query and the page query
\* run; with_read_connection runs the closure again after an Err, which
\* fails the same way, and returns the Err.
recall_memories(D, f, t, pd) ==
    IF ~validate_filter(f) THEN ErrorPage
    ELSE IF count_query(D, f, t) = InvalidParameterCount THEN ErrorPage
    ELSE IF ~QuerySyntaxOk(f) THEN ErrorPage
    ELSE Response(f, count_query(D, f, t), page_query(D, f, t, pd))

Filter(user_id, session_id, keywords, date_from, date_to, min_importance, limit, offset) ==
    [user_id |-> user_id, session_id |-> session_id, keywords |-> keywords,
     date_from |-> date_from, date_to |-> date_to,
     min_importance |-> min_importance, limit |-> limit, offset |-> offset]

\* QueryFilter::default().
DefaultFilter ==
    Filter(NoString, NoString, {}, NoValue, NoValue, NoValue, DefaultLimit, 0)

\* The default filter with limit and offset set to None: the filters built
\* on it are those whose count query binds.
Unpaged == [DefaultFilter EXCEPT !.limit = NoValue, !.offset = NoValue]

\* MemoryManager::recall_memories: a token, the validator's filter check,
\* then Database::recall_memories.  [response, limiter].
MemoryManager_recall_memories(cfg, l, D, f, t, pd) ==
    LET v == validate_request(cfg, l, 1, t)
    IN  [limiter |-> v.limiter,
         response |-> IF ~v.granted \/ ~validate_filter(f) THEN ErrorPage
                      ELSE recall_memories(D, f, t, pd)]

\* MemoryManager::search_memories: the query is split into keywords; without
\* a keyword the empty page is returned before a token is taken.
\* [response, limiter].
search_memories(cfg, l, D, user_id, query, limit, offset, t, pd) ==
    IF query = {} THEN [limiter |-> l, response |-> EmptyPage]
    ELSE MemoryManager_recall_memories(
             cfg, l, D,
             Filter(user_id, NoString, query, NoValue, NoValue, NoValue,
                    limit, offset), t, pd)

(***************************************************************************)
(* The state.                                                              *)
(***************************************************************************)
VARIABLES
    memories,           \* committed rows of the memories table
    fts,                \* committed FTS5 index: <<rowid, token>> entries
    sessions,           \* committed sessions table: id -> last_active
    users,              \* the ids that have a row in the users table
    memory_embeddings,  \* committed memory_embeddings table: memory_id -> row
    system_config,      \* committed system_config table: key -> value
    INSTANCES,          \* the handles of the FFI instance map
    INSTANCE_COUNTER,   \* the next FFI instance id
    issued,             \* history: every handle an init has returned
    tokens_granted,     \* history: tokens granted by concurrent try_acquire
    now,                \* the wall clock, in minutes
    ticks,              \* how often the clock has advanced
    limiter,            \* the token bucket of each service's validator
    config,             \* MindCacheConfig
    recursive_triggers, \* PRAGMA recursive_triggers of the SQLite build
    id_pool,            \* ids Uuid::new_v4 can still produce
    policy,             \* the DecayPolicy of the decay engine
    rd,                 \* the position of a caller of recall_memories
    th,                 \* each thread's position in its call
    result,             \* the result of each thread's last call
    faults,             \* transient storage failures so far
    accepted            \* the memories accepted by save_memory, as given

vars == <<memories, fts, sessions, users, memory_embeddings, system_config,
          INSTANCES, INSTANCE_COUNTER, issued, tokens_granted, now, ticks,
          limiter, config, policy, rd,
          recursive_triggers, id_pool, th, result, faults, accepted>>

\* A caller of recall_memories between calls.
IdleReader == [pc |-> "idle", filter |-> DefaultFilter, total_count |-> 0,
               response |-> EmptyPage]

Storage == [memories |-> memories, fts |-> fts, sessions |-> sessions]
EmptyStorage == [memories |-> {}, fts |-> {}, sessions |-> <<>>]

\* MemoryItem::default(), made at time t.
MemoryItem_default(t) ==
    [id |-> EmptyId, user_id |-> "", session_id |-> "", content |-> {},
     metadata |-> {}, created_at |-> t, updated_at |-> t,
     expires_at |-> NoValue, importance |-> DefaultImportance,
     ttl_hours |-> NoValue, is_compressed |-> FALSE, compressed_from |-> <<>>]

\* The item and the row of a thread that holds none.
NoItem == MemoryItem_default(0)
NoRow == MemoryRow(NoItem, EmptyId, 0)

\* A MemoryUpdate with every field None.
NoUpdate ==
    [set |-> {}, content |-> {}, importance |-> 0, metadata |-> {},
     ttl_hours |-> NoValue]

IdleThread ==
    [pc |-> "idle", kind |-> "none", item |-> NoItem, updates |-> NoUpdate,
     tx |-> "none",
     row |-> NoRow, id |-> EmptyId, attempts |-> 0, step |-> 0,
     work |-> EmptyStorage, snap |-> EmptyStorage, queue |-> <<>>,
     request |-> <<>>, results |-> <<>>,
     fail_on_error |-> FALSE, success_count |-> 0, error_count |-> 0,
     count |-> 0, at |-> 0]

NoResult ==
    [kind |-> "none", status |-> "none", id |-> EmptyId, count |-> 0,
     results |-> <<>>, success_count |-> 0, error_count |-> 0, compressed |-> 0,
     total_memories_before |-> 0, total_memories_after |-> 0,
     sessions_summarized |-> 0, error_message |-> "", ran |-> {}, failed |-> {},
     session |-> "", dimension |-> 0]

\* The call of thread t has not returned yet.
Pending(t, kind) ==
    IF kind = "batch_item" THEN UNCHANGED result
    ELSE result' = [result EXCEPT ![t] = [NoResult EXCEPT !.kind = kind,
                                                          !.status = "pending"]]

\* What get_memory is expected to return for a memory save_memory accepted.
Expectation(m, row) ==
    [id |-> row.id, user_id |-> m.user_id, session_id |-> m.session_id, content |-> m.content,
     metadata |-> m.metadata, importance |-> clamp(m.importance),
     expires_at |-> row.expires_at]

(***************************************************************************)
(* ConnectionPool::with_write_transaction: the closure's statements run on *)
(* the transaction's working copy; commit publishes it; any failure rolls  *)
(* back and the closure is run again, up to max_attempts attempts.         *)
(***************************************************************************)
StatementCount(tx) == IF tx = "save" THEN 3 ELSE 2

\* The k-th statement of the closure of tx, applied to W at time t.
Statement(tx, k, W, row, id, t, rt) ==
    IF tx = "save"
    THEN IF k = 1 THEN InsertOrReplaceMemory(W, row, rt)
         ELSE IF k = 2 THEN InsertOrReplaceFts(W, row.id, row.content)
         ELSE TouchSession(W, row.session_id, row.updated_at)
    ELSE IF tx = "delete"
    THEN IF k = 1 THEN DeleteFtsOf(W, RowsById(W, id))
         ELSE DeleteRows(W, RowsById(W, id))
    ELSE IF k = 1 THEN DeleteFtsOf(W, ExpiredRows(W, t))
         ELSE DeleteRows(W, ExpiredRows(W, t))

\* Rows the last statement of a delete or cleanup closure reports.
RowsAffected(tx, W, id, t) ==
    IF tx = "delete" THEN Cardinality(RowsById(W, id))
    ELSE IF tx = "cleanup" THEN Cardinality(ExpiredRows(W, t))
    ELSE 0

\* Uuid::new_v4: any id that has not been produced yet.
new_v4(pool) == pool

\* The batch loop's break (memory.rs): an item failed and the request asked
\* to stop at the first failure.
StopsBatch_never(status, fail_on_error) == FALSE

StopsBatch(status, fail_on_error) == status # "ok" /\ fail_on_error

\* A call of thread t returns.  A save_memory call made by the batch loop
\* returns into the loop, which counts it and stops on an error if asked to.
Return(t, base, kind, status, idv, cnt) ==
    IF kind = "batch_item"
    THEN /\ th' = [th EXCEPT ![t] =
                [base EXCEPT !.pc = "batch", !.kind = "batch", !.tx = "none",
                             !.row = NoRow, !.id = EmptyId, !.item = NoItem,
                             !.attempts = 0, !.step = 0,
                             !.work = EmptyStorage, !.snap = EmptyStorage,
                             !.results = Append(@, [status |-> status, id |-> idv]),
                             !.success_count = @ + (IF status = "ok" THEN 1 ELSE 0),
                             !.error_count = @ + (IF status = "ok" THEN 0 ELSE 1),
                             !.queue = IF StopsBatch(status, base.fail_on_error)
                                       THEN <<>> ELSE @]]
         /\ UNCHANGED result
    ELSE /\ th' = [th EXCEPT ![t] = IdleThread]
         /\ result' = [result EXCEPT ![t] =
                [NoResult EXCEPT !.kind = kind, !.status = status, !.id = idv,
                                 !.count = cnt, !.results = base.results,
                                 !.success_count = base.success_count,
                                 !.error_count = base.error_count]]

\* Database::save_memory: validate, give an empty id a new uuid, take now,
\* open the write transaction.  pool is what is left of the uuids.
Database_save_memory(t, base, kind, m, orig, pool) ==
    IF ~validate(m)
    THEN Return(t, base, kind, "db_error", EmptyId, 0) /\ id_pool' = pool
    ELSE \E id \in (IF m.id = EmptyId THEN new_v4(pool) ELSE {m.id}) :
           /\ id_pool' = pool \ {id}
           /\ th' = [th EXCEPT ![t] =
                  [base EXCEPT !.pc = "tx", !.kind = kind, !.item = orig,
                               !.tx = "save", !.row = MemoryRow(m, id, now),
                               !.id = id, !.attempts = 1, !.step = 0,
                               !.work = Storage, !.snap = Storage]]
           /\ Pending(t, kind)

\* Database::save_memory called by thread t.
DatabaseSaveMemory(t, m) ==
    /\ th[t].pc = "idle"
    /\ Database_save_memory(t, th[t], "save", m, m, id_pool)
    /\ UNCHANGED <<memories, fts, sessions, users, memory_embeddings,
                   system_config, INSTANCES, INSTANCE_COUNTER, issued,
                   tokens_granted, now, ticks, limiter, config, policy, rd,
                   recursive_triggers, faults, accepted>>

\* MemoryManager::save_memory, up to the start of the write transaction.
save_memory(t, base, kind, m) ==
    LET v == validate_request(config, limiter["memory"], 1, now)
    IN  /\ limiter' = [limiter EXCEPT !["memory"] = v.limiter]
        /\ IF ~v.granted
           THEN Return(t, base, kind, "rate_limited", EmptyId, 0) /\ UNCHANGED id_pool
           ELSE IF ~validate_memory_item(m)
           THEN Return(t, base, kind, "invalid", EmptyId, 0) /\ UNCHANGED id_pool
           ELSE \E id \in (IF m.id = EmptyId THEN new_v4(id_pool) ELSE {m.id}) :
                  LET mem == [m EXCEPT !.id = id,
                                       !.created_at = IF @ = MIN_UTC THEN now ELSE @,
                                       !.importance = clamp(@)]
                  IN  Database_save_memory(t, base, kind, mem, m, id_pool)

SaveMemory(t, m) ==
    /\ th[t].pc = "idle"
    /\ save_memory(t, th[t], "save", m)
    /\ UNCHANGED <<memories, fts, sessions, users, memory_embeddings, system_config,
                   INSTANCES, INSTANCE_COUNTER, issued, tokens_granted, now,
                   ticks, config, policy, rd, recursive_triggers, faults,
                   accepted>>

\* MemoryManager::save_memories_batch, up to the loop over the items.
SaveBatch(t, items, fail_on_error) ==
    LET batch_tokens == MaxOf(Len(items) \div 10, 1)
        v == validate_request(config, limiter["memory"], batch_tokens, now)
    IN  /\ th[t].pc = "idle"
        /\ IF ~validate_batch_size(config, Len(items))
           THEN /\ Return(t, th[t], "batch", "invalid", EmptyId, 0)
                /\ UNCHANGED limiter
           ELSE /\ limiter' = [limiter EXCEPT !["memory"] = v.limiter]
                /\ IF ~v.granted
                   THEN Return(t, th[t], "batch", "rate_limited", EmptyId, 0)
                   ELSE /\ th' = [th EXCEPT ![t] =
                               [IdleThread EXCEPT !.pc = "batch", !.kind = "batch",
                                                  !.queue = items,
                                                  !.request = items,
                                                  !.fail_on_error = fail_on_error]]
                        /\ Pending(t, "batch")
        /\ UNCHANGED <<memories, fts, sessions, users, memory_embeddings,
                       system_config, INSTANCES, INSTANCE_COUNTER, issued,
                       tokens_granted, now, ticks, config, policy, rd,
                       recursive_triggers, id_pool, faults, accepted>>

\* One turn of the batch loop: save the next item, or return the response.
BatchNext(t) ==
    /\ th[t].pc = "batch"
    /\ IF th[t].queue = <<>>
       THEN /\ Return(t, th[t], "batch", "ok", EmptyId, 0)
            /\ UNCHANGED <<limiter, id_pool>>
       ELSE save_memory(t, [th[t] EXCEPT !.queue = Tail(@)], "batch_item",
                       Head(th[t].queue))
    /\ UNCHANGED <<memories, fts, sessions, users, memory_embeddings, system_config,
                   INSTANCES, INSTANCE_COUNTER, issued, tokens_granted, now,
                   ticks, config, policy, rd, recursive_triggers, faults,
                   accepted>>

\* The sparse updates of MemoryManager::update_memory applied to memory m; u
\* is [set, content, importance, metadata, ttl_hours], set naming the fields
\* that are Some.
apply_updates(m, u, t) ==
    [m EXCEPT
        !.content = IF "content" \in u.set THEN u.content ELSE @,
        !.importance = IF "importance" \in u.set THEN clamp(u.importance) ELSE @,
        !.metadata = IF "metadata" \in u.set THEN u.metadata ELSE @,
        !.ttl_hours = IF "ttl_hours" \in u.set THEN u.ttl_hours ELSE @,
        !.expires_at = IF "ttl_hours" \in u.set
                       THEN IF u.ttl_hours = NoValue THEN NoValue
                            ELSE m.created_at + u.ttl_hours * HourMinutes
                       ELSE @,
        !.updated_at = t]

\* MemoryManager::update_memory, up to the start of the write transaction.
UpdateMemory(t, id, u) ==
    LET v == validate_request(config, limiter["memory"], 1, now)
        found == get_memory(Storage, id, now)
    IN  /\ th[t].pc = "idle"
        /\ limiter' = [limiter EXCEPT !["memory"] = v.limiter]
        /\ IF ~v.granted
           THEN Return(t, th[t], "update", "rate_limited", id, 0)
                /\ UNCHANGED id_pool
           ELSE IF found = {}
           THEN Return(t, th[t], "update", "not_found", id, 0)
                /\ UNCHANGED id_pool
           ELSE LET memory == apply_updates(CHOOSE x \in found : TRUE, u, now)
                IN  IF ~validate_memory_item(memory)
                    THEN Return(t, th[t], "update", "invalid", id, 0)
                         /\ UNCHANGED id_pool
                    ELSE Database_save_memory(t, [th[t] EXCEPT !.updates = u],
                                              "update", memory, memory, id_pool)
        /\ UNCHANGED <<memories, fts, sessions, users, memory_embeddings,
                       system_config, INSTANCES, INSTANCE_COUNTER, issued,
                       tokens_granted, now, ticks, config, policy, rd,
                       recursive_triggers, faults, accepted>>

\* MemoryManager::delete_memory, up to the start of the write transaction.
DeleteMemory(t, id) ==
    LET v == validate_request(config, limiter["memory"], 1, now)
    IN  /\ th[t].pc = "idle"
        /\ limiter' = [limiter EXCEPT !["memory"] = v.limiter]
        /\ IF ~v.granted
           THEN Return(t, th[t], "delete", "rate_limited", id, 0)
           ELSE /\ th' = [th EXCEPT ![t] =
                       [IdleThread EXCEPT !.pc = "tx", !.kind = "delete",
                                          !.tx = "delete", !.id = id,
                                          !.attempts = 1, !.work = Storage,
                                          !.snap = Storage]]
                /\ Pending(t, "delete")
        /\ UNCHANGED <<memories, fts, sessions, users, memory_embeddings,
                       system_config, INSTANCES, INSTANCE_COUNTER, issued,
                       tokens_granted, now, ticks, config, policy, rd,
                       recursive_triggers, id_pool, faults, accepted>>

\* Database::cleanup_expired, up to the start of the write transaction.
CleanupExpired(t) ==
    /\ th[t].pc = "idle"
    /\ th' = [th EXCEPT ![t] =
            [IdleThread EXCEPT !.pc = "tx", !.kind = "cleanup", !.tx = "cleanup",
                               !.attempts = 1, !.work = Storage, !.snap = Storage]]
    /\ Pending(t, "cleanup")
    /\ UNCHANGED <<memories, fts, sessions, users, memory_embeddings, system_config,
                   INSTANCES, INSTANCE_COUNTER, issued, tokens_granted, now,
                   ticks, limiter, config, policy, rd, recursive_triggers,
                   id_pool, faults, accepted>>

\* PRAGMA foreign_keys = ON: the INSERT of a save needs the users row of its
\* user_id and the sessions row of its session_id.
ForeignKeysHold(c) ==
    c.tx = "save" => c.row.user_id \in users /\ c.row.session_id \in DOMAIN sessions

\* idx_memories_active is a partial index WHERE expires_at IS NULL OR
\* expires_at > datetime('now'): SQLite evaluates the condition for a row
\* whose expires_at is not NULL and refuses the non-deterministic datetime().
IndexAccepts(row) == row.expires_at = NoValue

\* The k-th statement of the closure of c returns an error.
StatementFails(c, k) ==
    c.tx = "save" /\ k = 1 /\ (~ForeignKeysHold(c) \/ ~IndexAccepts(c.row))

\* A connection holds SQLite's write lock from its transaction's first write
\* statement until the transaction ends: a closure of with_write_transaction
\* after its first statement, a migration after the write of its version.
HoldsWriteLock(c) == (c.pc = "tx" /\ c.step >= 1) \/ c.pc = "migrate_commit"

\* FOREIGN KEY (memory_id) REFERENCES memories (id) ON DELETE CASCADE: the
\* embeddings of the rows a step deletes, or deletes to replace, go with them.
OnDeleteCascade ==
    memory_embeddings' =
        [id \in {i \in DOMAIN memory_embeddings :
                    \E r \in memories, w \in memories' :
                        r.id = i /\ w.id = i /\ r.rowid = w.rowid} |->
            memory_embeddings[id]]

\* tx.commit() succeeds: the working copy becomes the stored state and the
\* call returns Ok.
TxCommit(t) ==
    LET c == th[t]
    IN  /\ c.pc = "tx"
        /\ c.step = StatementCount(c.tx)
        /\ memories' = c.work.memories
        /\ fts' = c.work.fts
        /\ sessions' = c.work.sessions
        /\ accepted' =
             IF c.kind \in {"save", "batch_item"}
             THEN {e \in accepted : e.id # c.id} \cup {Expectation(c.item, c.row)}
             ELSE IF c.kind = "update" \/ (c.kind = "delete" /\ c.count > 0)
             THEN {e \in accepted : e.id # c.id}
             ELSE accepted
        /\ IF c.tx = "delete" /\ c.count = 0
           THEN Return(t, c, c.kind, "not_found", c.id, 0)
           ELSE Return(t, c, c.kind, "ok", c.id, c.count)
        /\ OnDeleteCascade
        /\ UNCHANGED <<users, system_config, INSTANCES,
                       INSTANCE_COUNTER, issued, tokens_granted, now, ticks,
                       limiter, config, policy, rd, recursive_triggers, id_pool,
                       faults>>

Retries_always(attempts) == TRUE

\* with_write_transaction's test before it runs the closure again.
Retries(attempts) == attempts < max_attempts

\* A failure of the running attempt of thread t: rolled back, and retried
\* or returned.
Fail(t) ==
    LET c == th[t]
    IN  /\ c.pc = "tx"
        /\ IF Retries(c.attempts)
           THEN /\ th' = [th EXCEPT ![t] =
                       [c EXCEPT !.attempts = @ + 1, !.step = 0, !.count = 0,
                                 !.work = Storage]]
                /\ UNCHANGED result
           ELSE Return(t, c, c.kind, "db_error", c.id, 0)
        /\ UNCHANGED <<memories, fts, sessions, users, memory_embeddings,
                       system_config, INSTANCES, INSTANCE_COUNTER, issued,
                       tokens_granted, now, ticks, limiter, config, policy, rd,
                       recursive_triggers, id_pool, accepted>>

TxFault_no_rollback(t) ==
    LET c == th[t]
    IN  /\ c.pc = "tx"
        /\ faults < MaxFaults
        /\ faults' = faults + 1
        /\ memories' = c.work.memories
        /\ fts' = c.work.fts
        /\ sessions' = c.work.sessions
        /\ IF c.attempts < max_attempts
           THEN /\ th' = [th EXCEPT ![t] =
                       [c EXCEPT !.attempts = @ + 1, !.step = 0, !.count = 0,
                                 !.work = c.work]]
                /\ UNCHANGED result
           ELSE Return(t, c, c.kind, "db_error", c.id, 0)
        /\ UNCHANGED <<users, memory_embeddings, system_config, INSTANCES,
                       INSTANCE_COUNTER, issued, tokens_granted, now, ticks,
                       limiter, config, policy, rd, recursive_triggers, id_pool,
                       accepted>>

\* A statement or the commit fails (SQLITE_BUSY, an I/O error): the
\* transaction is rolled back and the closure is run again while attempts are
\* left; after the last attempt the error is returned.
TxFault(t) ==
    /\ faults < MaxFaults
    /\ faults' = faults + 1
    /\ Fail(t)

\* The next statement of the closure runs inside the transaction.  The
\* first one waits in the busy handler until no other connection holds the
\* write lock, and then works on the database as committed at that moment.
\* A statement that returns an error ends the attempt as any failure does.
TxStatement(t) ==
    LET c == th[t]
        k == c.step + 1
        W == IF c.step = 0 THEN Storage ELSE c.work
    IN  /\ c.pc = "tx"
        /\ c.step < StatementCount(c.tx)
        /\ c.step = 0 => \A u \in DOMAIN th \ {t} : ~HoldsWriteLock(th[u])
        /\ IF StatementFails(c, k)
           THEN Fail(t)
           ELSE /\ th' = [th EXCEPT ![t] =
                       [c EXCEPT !.step = k,
                                 !.work = Statement(c.tx, k, W, c.row, c.id, now,
                                                    recursive_triggers),
                                 !.count = IF k = StatementCount(c.tx)
                                           THEN RowsAffected(c.tx, W, c.id, now)
                                           ELSE @]]
                /\ UNCHANGED <<memories, fts, sessions, users,
                               memory_embeddings, system_config, INSTANCES,
                               INSTANCE_COUNTER, issued, tokens_granted, now,
                               ticks, limiter, config, policy, rd,
                               recursive_triggers, id_pool, result, accepted>>
        /\ UNCHANGED faults

\* The one session of each user Uuid::new_v4 can name, and its owner.
SessionUser(sid) == IF sid = "s1" THEN "u1" ELSE "u2"

\* Database::create_session: one INSERT in a write transaction, the id a new
\* uuid.  Without the users row of user_id every attempt fails on the foreign
\* key and the error is returned.
CreateSession(t, user_id) ==
    /\ th[t].pc = "idle"
    /\ \A w \in DOMAIN th \ {t} : ~HoldsWriteLock(th[w])
    /\ IF user_id \in users
       THEN \E session_id \in {x \in SessionIds \ DOMAIN sessions :
                                  SessionUser(x) = user_id} :
              /\ sessions' = [x \in DOMAIN sessions \cup {session_id} |->
                                 IF x = session_id THEN now ELSE sessions[x]]
              /\ result' = [result EXCEPT ![t] =
                     [NoResult EXCEPT !.kind = "create_session", !.status = "ok",
                                      !.session = session_id]]
       ELSE /\ sessions' = sessions
            /\ result' = [result EXCEPT ![t] =
                   [NoResult EXCEPT !.kind = "create_session",
                                    !.status = "db_error"]]
    /\ UNCHANGED <<memories, fts, users, memory_embeddings, system_config,
                   INSTANCES, INSTANCE_COUNTER, issued, tokens_granted, now,
                   ticks, limiter, config, policy, rd, recursive_triggers,
                   id_pool, th, faults, accepted>>

\* What the steps of try_acquire leave alone besides the limiter, the
\* thread, its result and the tokens granted.
AcquireFrame ==
    UNCHANGED <<memories, fts, sessions, users, memory_embeddings,
                system_config, INSTANCES, INSTANCE_COUNTER, issued,
                now, ticks, config, policy, rd, recursive_triggers, id_pool,
                faults, accepted>>

\* RateLimiter::try_acquire as a thread runs it on the bucket of service s,
\* step by step.  It enters refill_tokens, which reads the clock:
\* let now = Utc::now();
AcquireNow(t, s, tokens) ==
    /\ th[t].pc = "idle"
    /\ tokens_granted < MaxGranted
    /\ th' = [th EXCEPT ![t] = [IdleThread EXCEPT !.pc = "lock", !.kind = s,
                                                  !.step = tokens, !.at = now]]
    /\ UNCHANGED <<limiter, result, tokens_granted>>
    /\ AcquireFrame

\* self.last_refill.lock().unwrap(), once no other thread holds the mutex: a
\* poisoned mutex makes the call panic.  minutes_elapsed is the time read
\* less last_refill; unless it is 0 the thread loads the tokens under the
\* mutex, otherwise it leaves refill_tokens.
AcquireLock(t) ==
    LET c == th[t]
        l == limiter[c.kind]
        minutes_elapsed == c.at - l.last_refill
    IN  /\ c.pc = "lock"
        /\ \A w \in DOMAIN th \ {t} : ~(th[w].pc = "refill" /\ th[w].kind = c.kind)
        /\ IF l.poisoned
           THEN /\ th' = [th EXCEPT ![t] = IdleThread]
                /\ result' = [result EXCEPT ![t] =
                       [NoResult EXCEPT !.kind = "try_acquire", !.status = "panic",
                                        !.count = c.step]]
           ELSE /\ th' = [th EXCEPT ![t] =
                       IF minutes_elapsed # 0
                       THEN [c EXCEPT !.pc = "refill", !.count = l.tokens]
                       ELSE [c EXCEPT !.pc = "load"]]
                /\ UNCHANGED result
        /\ UNCHANGED <<limiter, tokens_granted>>
        /\ AcquireFrame

\* The store of refill_tokens, the write of last_refill and the release of
\* the mutex.  Where the u32 arithmetic overflows, a build with overflow
\* checks panics with the mutex held, which poisons it, and a build without
\* them stores the wrapped value.
RefillStore(t, overflow_checks) ==
    LET c == th[t]
        l == limiter[c.kind]
        minutes_elapsed == c.at - l.last_refill
    IN  /\ c.pc = "refill"
        /\ IF overflow_checks /\ RefillOverflows(l, minutes_elapsed, c.count)
           THEN /\ limiter' = [limiter EXCEPT ![c.kind].poisoned = TRUE]
                /\ th' = [th EXCEPT ![t] = IdleThread]
                /\ result' = [result EXCEPT ![t] =
                       [NoResult EXCEPT !.kind = "try_acquire", !.status = "panic",
                                        !.count = c.step]]
           ELSE /\ limiter' = [limiter EXCEPT
                       ![c.kind].tokens = RefilledTokens(l, minutes_elapsed, c.count),
                       ![c.kind].last_refill = c.at]
                /\ th' = [th EXCEPT ![t] = [c EXCEPT !.pc = "load", !.count = 0]]
                /\ UNCHANGED result
        /\ UNCHANGED tokens_granted
        /\ AcquireFrame

\* let current_tokens = self.tokens.load(Acquire);
AcquireLoad(t) ==
    /\ th[t].pc = "load"
    /\ th' = [th EXCEPT ![t] = [@ EXCEPT !.pc = "acquire",
                                         !.count = limiter[th[t].kind].tokens]]
    /\ UNCHANGED <<limiter, result, tokens_granted>>
    /\ AcquireFrame

\* if current_tokens >= tokens { self.tokens.store(current_tokens - tokens); true }
\* else { false }
AcquireStore(t) ==
    LET s == th[t].kind
        tokens == th[t].step
        current_tokens == th[t].count
    IN  /\ th[t].pc = "acquire"
        /\ th' = [th EXCEPT ![t] = IdleThread]
        /\ IF current_tokens >= tokens
           THEN /\ limiter' = [limiter EXCEPT ![s].tokens = current_tokens - tokens]
                /\ tokens_granted' = tokens_granted + tokens
                /\ result' = [result EXCEPT ![t] =
                       [NoResult EXCEPT !.kind = "try_acquire", !.status = "ok",
                                        !.count = tokens]]
           ELSE /\ UNCHANGED <<limiter, tokens_granted>>
                /\ result' = [result EXCEPT ![t] =
                       [NoResult EXCEPT !.kind = "try_acquire",
                                        !.status = "rate_limited", !.count = tokens]]
        /\ UNCHANGED <<memories, fts, sessions, users, memory_embeddings,
                       system_config, INSTANCES, INSTANCE_COUNTER, issued, now,
                       ticks, config, policy, rd, recursive_triggers, id_pool,
                       faults, accepted>>

(***************************************************************************)
(* MemoryManager::recall_memories as its caller runs it: the two queries   *)
(* of Database::recall_memories are two statements on a pooled read        *)
(* connection in autocommit mode, so each reads the storage as committed   *)
(* at the moment it runs.                                                  *)
(***************************************************************************)
\* Rate limiting, filter validation, then the count query, whose Err is
\* returned after with_read_connection has run the closure three times.
RecallCount(f) ==
    LET v == validate_request(config, limiter["memory"], 1, now)
    IN  /\ rd.pc = "idle"
        /\ limiter' = [limiter EXCEPT !["memory"] = v.limiter]
        /\ rd' = IF \/ ~v.granted \/ ~validate_filter(f)
                    \/ count_query(Storage, f, now) = InvalidParameterCount
                 THEN [IdleReader EXCEPT !.filter = f,
                                         !.response = ErrorPage]
                 ELSE [pc |-> "page", filter |-> f,
                       total_count |-> count_query(Storage, f, now),
                       response |-> EmptyPage]
        /\ UNCHANGED <<memories, fts, sessions, users, memory_embeddings,
                       system_config, INSTANCES, INSTANCE_COUNTER, issued,
                       tokens_granted, now, ticks, config, policy,
                       recursive_triggers, id_pool, th, result, faults, accepted>>

\* The page query, and the response built from both results.
RecallPage ==
    /\ rd.pc = "page"
    /\ \E pd \in BOOLEAN :
          rd' = [rd EXCEPT
                   !.pc = "idle",
                   !.response = IF ~QuerySyntaxOk(rd.filter)
                                THEN ErrorPage
                                ELSE Response(rd.filter, rd.total_count,
                                              page_query(Storage, rd.filter, now, pd))]
    /\ UNCHANGED <<memories, fts, sessions, users, memory_embeddings, system_config,
                   INSTANCES, INSTANCE_COUNTER, issued, tokens_granted, now,
                   ticks, limiter, config, policy, recursive_triggers, id_pool,
                   th, result, faults, accepted>>

(***************************************************************************)
(* The decay engine (core/decay.rs).  A storage call of the engine returns *)
(* its result or an Err; the engine's reads are recalls with a limit, and  *)
(* so the first of them, the initial count of run_decay, returns an Err    *)
(* and ends the run before anything is written.  A run is therefore one    *)
(* step.  The operators of the later phases are what the code computes     *)
(* once a recall succeeds.                                                 *)
(***************************************************************************)
\* A write transaction whose closure runs to the end and commits.
Committed(tx, D, row, id, t, rt) ==
    LET D1 == Statement(tx, 1, D, row, id, t, rt)
        D2 == Statement(tx, 2, D1, row, id, t, rt)
    IN  IF tx = "save" THEN Statement(tx, 3, D2, row, id, t, rt) ELSE D2

RECURSIVE DeleteAll(_, _, _)
\* Database::delete_memory for each id of ids.
DeleteAll(D, ids, rt) ==
    IF ids = {} THEN D
    ELSE LET id == CHOOSE x \in ids : TRUE
         IN  DeleteAll(Committed("delete", D, NoRow, id, 0, rt), ids \ {id}, rt)

\* The filter the scans of the decay engine use: date_to and limit 1000, the
\* rest as QueryFilter::default() has it.
OldFilter(cutoff) == [DefaultFilter EXCEPT !.date_to = cutoff, !.limit = MaxLimit]

\* DecayEngine::expire_old_memories: [db, count, ok].  cleanup_expired has
\* committed when the recall returns its Err (ok = FALSE).
expire_old_memories(D, pol, t, rt, pd) ==
    LET cutoff_time == t - pol.max_age_hours * HourMinutes
        expired_count == Cardinality(ExpiredRows(D, t))
        D1 == Committed("cleanup", D, NoRow, EmptyId, t, rt)
        old_memories_response == recall_memories(D1, OldFilter(cutoff_time), t, pd)
        old == old_memories_response.data
        low == {old[i].id : i \in {j \in DOMAIN old :
                                      old[j].importance < pol.importance_threshold}}
    IN  IF old_memories_response.error
        THEN [db |-> D1, count |-> 0, ok |-> FALSE]
        ELSE [db |-> DeleteAll(D1, low, rt),
              count |-> expired_count + Cardinality(low), ok |-> TRUE]

RECURSIVE SortByCreatedAt(_)
\* sort_by_key(|m| m.created_at): a stable sort.
SortByCreatedAt(q) ==
    IF q = <<>> THEN <<>>
    ELSE LET least == Min({q[i].created_at : i \in DOMAIN q})
             k == Min({i \in DOMAIN q : q[i].created_at = least})
         IN  <<q[k]>> \o SortByCreatedAt(SubSeq(q, 1, k - 1) \o SubSeq(q, k + 1, Len(q)))

RECURSIVE SumImportance(_)
SumImportance(q) == IF q = <<>> THEN 0 ELSE Head(q).importance + SumImportance(Tail(q))

RECURSIVE TakeMostImportant(_, _)
\* The first n of q after the stable sort by importance, descending.
TakeMostImportant(q, n) ==
    IF q = <<>> \/ n = 0 THEN <<>>
    ELSE LET most == Max({q[i].importance : i \in DOMAIN q})
             k == Min({i \in DOMAIN q : q[i].importance = most})
         IN  <<q[k]>> \o TakeMostImportant(SubSeq(q, 1, k - 1) \o SubSeq(q, k + 1, Len(q)),
                                           n - 1)

\* DecayEngine::generate_compression_summary: the tokens of the summary text.
generate_compression_summary(q) ==
    LET sample == TakeMostImportant(q, 3)
    IN  {"compressed", "memories"} \cup UNION {Trim(sample[i].content) : i \in DOMAIN sample}

\* The number of memories of q whose content has the word.
WordCount(q, word) == Cardinality({i \in DOMAIN q : word \in q[i].content})

RECURSIVE ByCount(_, _)
\* The words S by falling count; words of one count stay together as a set.
ByCount(q, S) ==
    IF S = {} THEN <<>>
    ELSE LET most == Max({WordCount(q, w) : w \in S})
             top == {w \in S : WordCount(q, w) = most}
         IN  <<top>> \o ByCount(q, S \ top)

\* DecayEngine::extract_key_points: the words of the contents (longer than
\* three letters and no stop words, as all of Vocabulary are) by falling
\* count.  Words of equal count come in the order of a HashMap and are kept
\* here as a set; the contents have fewer than five words, so none is cut.
extract_key_points(q) == ByCount(q, UNION {Trim(q[i].content) : i \in DOMAIN q})

\* DecayEngine::create_compressed_memory for the group q, at time t; id is
\* its new uuid.  The texts of the metadata are those ToString gives.
create_compressed_memory(q, id, t) ==
    LET sorted_memories == SortByCreatedAt(q)
        n == Len(sorted_memories)
    IN  [MemoryItem_default(t) EXCEPT
            !.id = id,
            !.user_id = q[1].user_id,
            !.session_id = q[1].session_id,
            !.content = generate_compression_summary(sorted_memories),
            !.metadata =
                {<<"type", "compressed">>,
                 <<"original_count", ToString(n)>>,
                 <<"key_points", ToString(extract_key_points(sorted_memories))>>,
                 <<"date_range_start", ToString(sorted_memories[1].created_at)>>,
                 <<"date_range_end", ToString(sorted_memories[n].created_at)>>},
            !.created_at = sorted_memories[1].created_at,
            !.updated_at = t,
            !.expires_at = NoValue,
            !.importance = SumImportance(sorted_memories) \div n,
            !.ttl_hours = NoValue,
            !.is_compressed = TRUE,
            !.compressed_from = [i \in DOMAIN sorted_memories |-> sorted_memories[i].id]]

\* The members of q with the given user and session, in the order of q.
GroupOf(q, key) == SelectSeq(q, LAMBDA m : <<m.user_id, m.session_id>> = key)

RECURSIVE CompressGroups(_, _, _, _, _, _)
\* The loop of compress_old_memories over the groups of three or more, in the
\* order the HashMap yields them; ids maps each such group to the uuid of its
\* compressed memory.  A failed save ends compress_old_memories with an Err.
CompressGroups(D, q, order, ids, t, rt) ==
    IF order = <<>> THEN [db |-> D, count |-> 0, ok |-> TRUE]
    ELSE LET key == Head(order)
             compressed_memory == create_compressed_memory(GroupOf(q, key), ids[key], t)
             row == MemoryRow(compressed_memory, compressed_memory.id, t)
         IN  IF ~validate(compressed_memory)
             THEN [db |-> D, count |-> 0, ok |-> FALSE]
             ELSE LET saved == Committed("save", D, row, row.id, t, rt)
                      D1 == DeleteAll(saved, Ran(compressed_memory.compressed_from), rt)
                      rest == CompressGroups(D1, q, Tail(order), ids, t, rt)
                  IN  [db |-> rest.db,
                       count |-> IF rest.ok
                                 THEN rest.count + Len(compressed_memory.compressed_from)
                                 ELSE 0,
                       ok |-> rest.ok]

\* The orders in which a HashMap can yield the keys S.
Orders(S) ==
    {q \in [1..Cardinality(S) -> S] : \A i, j \in DOMAIN q : i # j => q[i] # q[j]}

\* The groups compress_old_memories compresses in storage D: [list, keys,
\* ok], ok = FALSE when its recall returns an Err.
CompressibleGroups(D, pol, t, pd) ==
    LET cutoff_date == t - (pol.max_age_hours \div 2) * HourMinutes
        old_memories_response == recall_memories(D, OldFilter(cutoff_date), t, pd)
        old == old_memories_response.data
        old_memories == SelectSeq(old, LAMBDA m : m.importance < pol.importance_threshold)
        keys == {<<old_memories[i].user_id, old_memories[i].session_id>> :
                     i \in DOMAIN old_memories}
    IN  [list |-> old_memories,
         keys |-> {key \in keys : Len(GroupOf(old_memories, key)) >= 3},
         ok |-> ~old_memories_response.error]

\* DecayEngine::get_total_memory_count: the total_count of a recall with
\* limit 1, or the recall's Err.
get_total_memory_count(D, t) ==
    LET response == recall_memories(D, [DefaultFilter EXCEPT !.limit = 1], t, FALSE)
    IN  IF response.error THEN InvalidParameterCount ELSE response.total_count

\* DecayEngine::summarize_old_sessions: the sessions holding five or more
\* memories older than seven days, nothing is written; [count, ok].
summarize_old_sessions(D, t, pd) ==
    LET old_memories_response ==
            recall_memories(D, OldFilter(t - SummaryAgeDays * 24 * HourMinutes), t, pd)
        old == old_memories_response.data
    IN  [count |-> Cardinality({sid \in {old[i].session_id : i \in DOMAIN old} :
                        Cardinality({i \in DOMAIN old : old[i].session_id = sid})
                            >= SummaryMinMemories}),
         ok |-> ~old_memories_response.error]

\* DecayEngine::enforce_memory_limits: the number of memories it removes.
enforce_memory_limits(D, pol) == 0

RunningStats_overcounted ==
    [NoResult EXCEPT !.kind = "decay", !.status = "running", !.ran = {"count"},
                     !.total_memories_after = 1]

\* The stats of a run that has got as far as its initial count.
RunningStats == [NoResult EXCEPT !.kind = "decay", !.status = "running",
                                 !.ran = {"count"}]

\* The steps of run_decay after compression, on the storage `done` that
\* compress_old_memories has left: session summaries, the limits, the final
\* count and the stats.
run_decay_finish(t, before, expired, compressed, done, summary, after) ==
    /\ memories' = done.db.memories
    /\ fts' = done.db.fts
    /\ sessions' = done.db.sessions
    /\ accepted' = {e \in accepted : \E r \in done.db.memories : r.id = e.id}
    /\ th' = th
    /\ result' = [result EXCEPT ![t] =
           [RunningStats EXCEPT
               !.status = "completed",
               !.count = expired.count + enforce_memory_limits(done.db, policy),
               !.compressed = IF compressed THEN done.count ELSE 0,
               !.sessions_summarized = IF summary.ok THEN summary.count ELSE 0,
               !.total_memories_before = before,
               !.total_memories_after =
                   IF after = InvalidParameterCount THEN 0 ELSE after,
               !.error_message = IF compressed THEN "" ELSE "Compression failed",
               !.ran = {"count", "expire", "limits"}
                       \cup (IF policy.compression_enabled THEN {"compress"} ELSE {})
                       \cup (IF policy.auto_summarize_sessions
                             THEN {"summarize"} ELSE {}),
               !.failed = (IF compressed THEN {} ELSE {"compress"})
                          \cup (IF summary.ok THEN {} ELSE {"summarize"})]]

\* compress_old_memories has returned.
run_decay_compressed(t, before, expired, compressed, done, pd) ==
    run_decay_finish(t, before, expired, compressed, done,
                     IF policy.auto_summarize_sessions
                     THEN summarize_old_sessions(done.db, now, pd)
                     ELSE [count |-> 0, ok |-> TRUE],
                     get_total_memory_count(done.db, now))

\* The steps of run_decay from compression on; groups are the groups
\* compress_old_memories finds.
run_decay_compress(t, before, expired, groups, pd) ==
    \E ids \in [groups.keys -> id_pool], order \in Orders(groups.keys) :
        /\ \A j, k \in groups.keys : j # k => ids[j] # ids[k]
        /\ id_pool' = id_pool \ {ids[k] : k \in groups.keys}
        /\ run_decay_compressed(t, before, expired, groups.ok,
                                CompressGroups(expired.db, groups.list, order, ids,
                                               now, recursive_triggers), pd)

\* The steps of run_decay after its initial count has returned `before`;
\* expired is what expire_old_memories returns.
run_decay_expired(t, before, expired, pd) ==
    IF ~expired.ok
    THEN /\ memories' = expired.db.memories
         /\ fts' = expired.db.fts
         /\ sessions' = expired.db.sessions
         /\ accepted' = {e \in accepted : \E r \in expired.db.memories : r.id = e.id}
         /\ result' = [result EXCEPT ![t] =
                [RunningStats EXCEPT !.status = "failed",
                                     !.error_message = "Expiry failed",
                                     !.total_memories_before = before,
                                     !.ran = {"count", "expire"},
                                     !.failed = {"expire"}]]
         /\ UNCHANGED <<id_pool, th>>
    ELSE run_decay_compress(t, before, expired,
                            IF policy.compression_enabled
                            THEN CompressibleGroups(expired.db, policy, now, pd)
                            ELSE [list |-> <<>>, keys |-> {}, ok |-> TRUE],
                            pd)

run_decay_purging(t) ==
    /\ th[t].pc = "idle"
    /\ memories' = {}
    /\ fts' = {}
    /\ accepted' = {}
    /\ result' = [result EXCEPT ![t] = [RunningStats EXCEPT !.status = "failed"]]
    /\ UNCHANGED <<sessions, users, memory_embeddings, system_config, INSTANCES,
                   INSTANCE_COUNTER, issued, tokens_granted, now, ticks, limiter,
                   config, policy, rd, recursive_triggers, id_pool, th, faults>>

\* DecayEngine::run_decay.  The result is the DecayStats record: count is
\* memories_expired, compressed is memories_compressed, ran the steps the run
\* went through and failed the steps that returned an Err.
run_decay(t) ==
    LET v == validate_request(config, limiter["decay"], 10, now)
        before == get_total_memory_count(Storage, now)
    IN  /\ th[t].pc = "idle"
        /\ limiter' = [limiter EXCEPT !["decay"] = v.limiter]
        /\ IF ~v.granted
           THEN /\ Return(t, th[t], "decay", "rate_limited", EmptyId, 0)
                /\ UNCHANGED <<memories, fts, sessions, id_pool, accepted>>
           ELSE IF before = InvalidParameterCount
           THEN /\ result' = [result EXCEPT ![t] =
                       [RunningStats EXCEPT !.status = "failed",
                                            !.error_message = "InvalidParameterCount",
                                            !.failed = {"count"}]]
                /\ UNCHANGED <<memories, fts, sessions, id_pool, accepted, th>>
           ELSE \E pd \in BOOLEAN :
                  run_decay_expired(t, before,
                                    expire_old_memories(Storage, policy, now,
                                                        recursive_triggers, pd), pd)
        /\ OnDeleteCascade
        /\ UNCHANGED <<users, system_config, INSTANCES,
                       INSTANCE_COUNTER, issued, tokens_granted, now, ticks,
                       config, policy, rd, recursive_triggers, faults>>

\* A run of the decay engine by thread t.
RunDecay(t) == run_decay(t)

\* #[derive(Validate)] on DecayPolicy: the range attributes.
DecayPolicy_validate(p) ==
    /\ p.max_age_hours >= 1 /\ p.max_age_hours <= 8760
    /\ p.importance_threshold >= 0 /\ p.importance_threshold <= ImportanceMax
    /\ p.max_memories_per_user >= 1 /\ p.max_memories_per_user <= 1000000

\* DecayEngine::update_policy: a policy that passes its validation replaces
\* the engine's; the caller holds the engine exclusively (&mut self), so no
\* run is under way.
update_policy(t, p) ==
    /\ th[t].pc = "idle"
    /\ policy' = IF DecayPolicy_validate(p) THEN p ELSE policy
    /\ result' = [result EXCEPT ![t] =
           [NoResult EXCEPT !.kind = "update_policy",
                            !.status = IF DecayPolicy_validate(p)
                                       THEN "ok" ELSE "invalid"]]
    /\ UNCHANGED <<memories, fts, sessions, users, memory_embeddings, system_config,
                   INSTANCES, INSTANCE_COUNTER, issued, tokens_granted, now, ticks,
                   limiter, config, rd, recursive_triggers, id_pool, th, faults,
                   accepted>>

\* The clock advances.
Tick(d) ==
    /\ ticks < MaxTicks
    /\ now' = now + d
    /\ ticks' = ticks + 1
    /\ UNCHANGED <<memories, fts, sessions, users, memory_embeddings, system_config,
                   INSTANCES, INSTANCE_COUNTER, issued, tokens_granted, limiter,
                   config, policy, rd, recursive_triggers, id_pool, th, result,
                   faults, accepted>>

(***************************************************************************)
(* Inputs of the calls.                                                    *)
(***************************************************************************)
\* MemoryItem { id, user_id, ..., ..Default::default() }.
Item(id, user_id, session_id, content, metadata, created_at, importance, ttl) ==
    [MemoryItem_default(created_at) EXCEPT
        !.id = id, !.user_id = user_id, !.session_id = session_id,
        !.content = content, !.metadata = metadata, !.importance = importance,
        !.ttl_hours = ttl]

Update(set, content, importance, metadata, ttl) ==
    [set |-> set, content |-> content, importance |-> importance,
     metadata |-> metadata, ttl_hours |-> ttl]

ApplePie == Item(EmptyId, "u1", "s1", {"apple"}, {}, MIN_UTC, 5 * Tenth, NoValue)
Shortlived == Item(EmptyId, "u2", "s2", {"banana"}, {<<"k", "v">>}, MIN_UTC, 3 * Tenth, 1)
Tagged == Item(EmptyId, "u2", "s2", {"banana"}, {<<"k", "v">>}, MIN_UTC, 3 * Tenth, NoValue)
Supplied == Item(1, "u1", "s2", {"apple", "banana"}, {}, MIN_UTC, 10 * Tenth, NoValue)
TooImportant == Item(EmptyId, "u1", "s1", {"apple"}, {}, MIN_UTC, 11 * Tenth, NoValue)
Blank == Item(EmptyId, "u1", "s1", {}, {}, MIN_UTC, 5 * Tenth, NoValue)
Spaces == Item(EmptyId, "u1", "s1", {Whitespace}, {}, MIN_UTC, 5 * Tenth, NoValue)
Faint == Item(EmptyId, "u1", "s1", {"apple"}, {}, MIN_UTC, 2 * Tenth, NoValue)
Bulky == Item(EmptyId, "u2", "s1", {"banana"}, {<<"k", "BIG">>}, MIN_UTC, 5 * Tenth, NoValue)


ToBanana == Update({"content"}, {"banana"}, 0, {}, NoValue)
Boost == Update({"importance", "ttl_hours"}, {}, 12 * Tenth, {}, 1)
Overboost == Update({"importance"}, {}, 12 * Tenth, {}, NoValue)
ClearTtl == Update({"ttl_hours"}, {}, 0, {}, NoValue)
ToBlank == Update({"content"}, {}, 0, {}, NoValue)
ToBulky == Update({"metadata"}, {}, 0, {<<"k", "BIG">>}, NoValue)

MainConfig ==
    [enable_request_limits |-> FALSE, max_requests_per_minute |-> 1000,
     max_batch_size |-> 100]

(***************************************************************************)
(* The state after construction, and the specification of the memory       *)
(* service: saves, updates, deletes and the expiry sweep as time passes.   *)
(***************************************************************************)
\* The table's rowids are not used up.
RowidsLeft(bound) == NextRowid(memories) <= bound

DefaultPolicy ==
    [max_age_hours |-> 720, importance_threshold |-> 3 * Tenth,
     max_memories_per_user |-> 10000,
     compression_enabled |-> TRUE, auto_summarize_sessions |-> TRUE]

FirstInstanceId == 1

\* The users table of the database file Database::new opens: empty in a file
\* it creates, and otherwise as the file holds it.
UsersOnFile == {{}, UserIds}

\* The state after construction, the clock reading t0.

InitAt(cfg, pol, pool, T, t0) ==
    /\ memories = {}
    /\ fts = {}
    /\ sessions = <<>>
    /\ users \in UsersOnFile
    /\ memory_embeddings = <<>>
    /\ system_config = <<>>
    /\ INSTANCES = {}
    /\ INSTANCE_COUNTER = FirstInstanceId
    /\ issued = {}
    /\ tokens_granted = 0
    /\ now = t0
    /\ ticks = 0
    /\ config = cfg
    /\ policy = pol
    /\ limiter = [s \in Services |->
                    RateLimiter_new(cfg.max_requests_per_minute,
                                    cfg.max_requests_per_minute, 1)]
    /\ recursive_triggers \in BOOLEAN
    /\ id_pool = pool
    /\ th = [t \in T |-> IdleThread]
    /\ result = [t \in T |-> NoResult]
    /\ faults = 0
    /\ accepted = {}
    /\ rd = IdleReader

InitThreads(cfg, pol, pool, T) == InitAt(cfg, pol, pool, T, 1)

InitWith(cfg, pol, pool) == InitThreads(cfg, pol, pool, Threads)

Init == InitWith(MainConfig, DefaultPolicy, Ids)

Next ==
    \/ \E t \in Threads, u \in UserIds : CreateSession(t, u)
    \/ \E t \in Threads, m \in {ApplePie, Tagged, Shortlived} :
           RowidsLeft(MaxRowid) /\ SaveMemory(t, m)
    \/ \E t \in Threads, id \in Ids, u \in {ToBanana, Boost} :
           RowidsLeft(MaxRowid) /\ UpdateMemory(t, id, u)
    \/ \E t \in Threads, id \in Ids : DeleteMemory(t, id)
    \/ \E t \in Threads : CleanupExpired(t)
    \/ \E t \in Threads : TxStatement(t)
    \/ \E t \in Threads : TxCommit(t)
    \/ Tick(HourMinutes)

Spec == Init /\ [][Next]_vars

(***************************************************************************)
(* Properties.  The reads (get_memory, recall_memories, search_memories)   *)
(* are evaluated on the committed storage of every reachable state, for    *)
(* each filter of Filters and each scan direction of the plan.             *)
(***************************************************************************)
Filters ==
    {DefaultFilter, Unpaged,
     [Unpaged EXCEPT !.user_id = "u1"],
     [Unpaged EXCEPT !.user_id = "u2", !.session_id = "s2"],
     [Unpaged EXCEPT !.keywords = {"apple"}],
     [Unpaged EXCEPT !.user_id = "u2", !.keywords = {"apple", "banana"}],
     [Unpaged EXCEPT !.date_from = 2],
     [Unpaged EXCEPT !.date_to = 1],
     [Unpaged EXCEPT !.min_importance = 5 * Tenth]}

\* The ids a recall with filter f returns.
RecalledIds(f, pd) == {m.id : m \in Ran(recall_memories(Storage, f, now, pd).data)}

\* The ids a keyword search of user u for query returns.
SearchedIds(u, query, pd) ==
    {m.id : m \in Ran(search_memories(config, limiter["memory"], Storage, u,
                                       query, NoValue, NoValue, now,
                                       pd).response.data)}

\* C2: a memory accepted by save_memory is returned by get_memory with the
\* user_id, session_id, content, metadata and (clamped) importance that were
\* given, for as long as it has not been updated, deleted or expired.
C2_RoundTrip ==
    \A e \in accepted :
        (e.expires_at = NoValue \/ e.expires_at > now) =>
            \E m \in get_memory(Storage, e.id, now) :
                /\ m.id = e.id
                /\ m.user_id = e.user_id
                /\ m.session_id = e.session_id
                /\ m.content = e.content
                /\ m.metadata = e.metadata
                /\ m.importance = e.importance

\* A memory saved with metadata is still retrievable after another memory
\* has been updated or deleted.
C2_Witness ==
    /\ \E e \in accepted : e.metadata # {} /\ e.importance = 3 * Tenth
    /\ \E t \in Threads : result[t].kind \in {"update", "delete"} /\ result[t].status = "ok"

\* The stored memories that satisfy filter f as the specification defines
\* it: not expired, not compressed, of the user and session asked for, at or
\* above min_importance, created within the range, and with at least one of
\* the keywords in their current content.
Satisfying(f) ==
    {r \in memories :
        /\ ~Expired(r, now)
        /\ ~r.is_compressed
        /\ (f.user_id # NoString => r.user_id = f.user_id)
        /\ (f.session_id # NoString => r.session_id = f.session_id)
        /\ (f.min_importance # NoValue => r.importance >= f.min_importance)
        /\ (f.date_from # NoValue => r.created_at >= f.date_from)
        /\ (f.date_to # NoValue => r.created_at <= f.date_to)
        /\ (f.keywords # {} => f.keywords \cap r.content # {})}

\* C6: the full-text index holds exactly the tokens of the current content
\* of each stored memory, under its rowid, and a keyword search of a user
\* returns a memory exactly when its current content contains the keyword.
C6_FtsConsistent ==
    /\ fts = UNION {FtsEntries(r.rowid, r.content) : r \in memories}
    /\ \A u \in UserIds, k \in Vocabulary, pd \in BOOLEAN :
           SearchedIds(u, {k}, pd) =
               {r.id : r \in Satisfying([Unpaged EXCEPT !.user_id = u,
                                                       !.keywords = {k}])}

PageSizes == {1, 2}

RECURSIVE WalkFrom(_, _, _, _)
\* The rows a client collects walking the pages k, k+1, ... of filter f with
\* page size f.limit until an empty page or page `last`.
WalkFrom(f, pd, k, last) ==
    LET page == recall_memories(Storage, [f EXCEPT !.offset = k * f.limit],
                                now, pd)
    IN  IF k > last \/ page.data = <<>> THEN <<>>
        ELSE page.data \o WalkFrom(f, pd, k + 1, last)

Unlimited(f, pd) ==
    recall_memories(Storage, [f EXCEPT !.limit = NoValue, !.offset = NoValue],
                    now, pd).data

\* C8: on an unchanged data set, walking the pages of a filter with limit
\* and offset collects exactly the rows of the single unlimited query, each
\* once, and every page reports the same total_count, the number of rows the
\* query selects.
C8_PaginationComplete ==
    \A f \in Filters, size \in PageSizes, pd \in BOOLEAN :
        LET whole == Unlimited(f, pd)
            g == [f EXCEPT !.limit = size]
        IN  /\ WalkFrom(g, pd, 0, Len(whole)) = whole
            /\ \A i, j \in DOMAIN whole : i # j => whole[i].id # whole[j].id
            /\ \A k \in 0..Len(whole) :
                   LET page == recall_memories(Storage, [g EXCEPT !.offset = k * size],
                                               now, pd)
                   IN  ~page.error /\ page.total_count = Len(whole)
            /\ f.keywords = {} =>
                   {m.id : m \in Ran(whole)} = {r.id : r \in Satisfying(f)}

\* C9: a recall returns exactly the stored memories that are not expired,
\* not compressed and satisfy every predicate of the filter; with a user
\* filter it returns no memory of another user.
C9_RecallExact ==
    \A f \in Filters, pd \in BOOLEAN :
        /\ ~recall_memories(Storage, f, now, pd).error
        /\ RecalledIds(f, pd) = {r.id : r \in Satisfying(f)}
        /\ f.user_id # NoString =>
               \A m \in Ran(recall_memories(Storage, f, now, pd).data) :
                   m.user_id = f.user_id

\* (created_at DESC, importance DESC, id ASC): a comes strictly before b.
SpecifiedBefore(a, b) ==
    \/ a.created_at > b.created_at
    \/ a.created_at = b.created_at /\ a.importance > b.importance
    \/ a.created_at = b.created_at /\ a.importance = b.importance /\ a.id < b.id

\* C10: every page of every recall is ordered by created_at descending, then
\* importance descending, then id ascending.
C10_Ordered ==
    \A f \in Filters, pd \in BOOLEAN :
        LET data == recall_memories(Storage, f, now, pd).data
        IN  \A i, j \in DOMAIN data : i < j => SpecifiedBefore(data[i], data[j])

(***************************************************************************)
(* The memory service behind an enabled validator: valid and invalid       *)
(* saves, batches and updates against a small token bucket.                *)
(***************************************************************************)
StrictConfig ==
    [enable_request_limits |-> TRUE, max_requests_per_minute |-> 3,
     max_batch_size |-> 2]

InitValidation == InitWith(StrictConfig, DefaultPolicy, Ids)

NextValidation ==
    \/ \E t \in Threads, u \in UserIds : CreateSession(t, u)
    \/ \E t \in Threads, m \in {ApplePie, TooImportant, Blank, Spaces, Bulky} :
           RowidsLeft(MaxRowid) /\ SaveMemory(t, m)
    \/ \E t \in Threads, f \in BOOLEAN,
          b \in {<<ApplePie, Blank>>, <<Blank, ApplePie>>,
                 <<ApplePie, ApplePie, ApplePie>>} : SaveBatch(t, b, f)
    \/ \E t \in Threads : RowidsLeft(MaxRowid) /\ BatchNext(t)
    \/ \E t \in Threads, id \in Ids, u \in {Boost, ToBlank, ToBulky} :
           RowidsLeft(MaxRowid) /\ UpdateMemory(t, id, u)
    \/ \E t \in Threads : TxStatement(t)
    \/ \E t \in Threads : TxCommit(t)
    \/ Tick(HourMinutes)

SpecValidation == InitValidation /\ [][NextValidation]_vars

\* A memory the specification accepts: non-empty user and session id,
\* non-blank content, importance in [0, 1], a TTL of 1..8760 hours if any,
\* and at most 10000 bytes of metadata.
Acceptable(m) ==
    /\ m.user_id # "" /\ m.session_id # ""
    /\ Trim(m.content) # {}
    /\ m.importance \in 0..ImportanceMax
    /\ m.ttl_hours # NoValue => m.ttl_hours \in 1..MaxTtlHours
    /\ \A p \in m.metadata : p[1] # "BIG" /\ p[2] # "BIG"

\* The tokens the memory service's bucket holds for a call made now.
TokensNow ==
    IF now > limiter["memory"].last_refill
    THEN refill_tokens(limiter["memory"], now).tokens
    ELSE limiter["memory"].tokens

\* C5: a save, batch save or update that the validator rejects (no token
\* left, an invalid memory, a batch above max_batch_size) writes nothing:
\* while no transaction of an accepted call is open, memories, the FTS index
\* and the sessions stay as they are (create_session apart, which is no
\* memory write); a write transaction is opened only for an acceptable
\* memory when a token is left, and a batch is started only within
\* max_batch_size with its tokens available.
C5_RejectedWritesNothing ==
    [][\A t \in Threads :
          /\ th[t].pc # "tx" =>
                 /\ memories' = memories /\ fts' = fts
                 /\ sessions' = sessions \/ result'[t].kind = "create_session"
                 /\ th'[t].pc = "tx" =>
                        /\ Acceptable(th'[t].item)
                        /\ TokensNow >= 1
          /\ th[t].pc = "idle" /\ th'[t].pc = "batch" =>
                 /\ Len(th'[t].queue) <= config.max_batch_size
                 /\ TokensNow >= 1]_vars

\* A call has just been refused for an invalid memory, memories are stored
\* and the bucket is empty, so that the next call is refused for lack of
\* tokens.
C5_Witness ==
    /\ memories # {}
    /\ \E t \in Threads :
           /\ result[t].status = "invalid"
           /\ result[t].kind \in {"save", "update", "batch"}
           /\ TokensNow = 0

(***************************************************************************)
(* The token bucket in use: saves of the memory service into a session the *)
(* caller has created draw on its bucket, try_acquire is also called       *)
(* directly, and the clock refills.                                        *)
(***************************************************************************)
MaxLimiterRowid == 6

LimiterConfig ==
    [enable_request_limits |-> TRUE, max_requests_per_minute |-> 5,
     max_batch_size |-> 100]

InitLimiter == InitWith(LimiterConfig, DefaultPolicy, Ids)

NextLimiter ==
    \/ \E t \in Threads, u \in UserIds : CreateSession(t, u)
    \/ \E t \in Threads :
           /\ RowidsLeft(MaxLimiterRowid)
           /\ Supplied.user_id \in users /\ Supplied.session_id \in DOMAIN sessions
           /\ SaveMemory(t, Supplied)
    \/ \E t \in Threads, n \in 1..3 : AcquireNow(t, "session", n)
    \/ \E t \in Threads : AcquireLock(t)
    \/ \E t \in Threads, overflow_checks \in BOOLEAN : RefillStore(t, overflow_checks)
    \/ \E t \in Threads : AcquireLoad(t)
    \/ \E t \in Threads : AcquireStore(t)
    \/ \E t \in Threads : TxStatement(t)
    \/ \E t \in Threads : TxCommit(t)
    \/ \E d \in {1, HourMinutes} : Tick(d)

SpecLimiter == InitLimiter /\ [][NextLimiter]_vars

\* The tokens the bucket of service s holds at the current time, counting the
\* refill that is due.
Held(s) == refill_tokens(limiter[s], now).tokens

\* Saves of the memory service that have committed: each one replaces the
\* row of the supplied id and so takes the next rowid.
SavesCommitted == NextRowid(memories) - 1

\* C4: the limiter never grants more than it holds.  try_acquire(n) returns
\* true and removes exactly n tokens when at least n are held, and returns
\* false and removes nothing otherwise; a save is refused with
\* RateLimitExceeded exactly when no token is held.  With
\* max_requests_per_minute = 5 and no refill, the first 5 saves pass and the
\* 6th is refused.
C4_TokenBucket ==
    [][\A t \in Threads :
          /\ \A s \in Services : limiter'[s].tokens \in 0..limiter[s].max_tokens
          /\ (th[t].pc \in {"lock", "refill"} /\ th'[t].pc = "load") =>
                 limiter'[th[t].kind] = refill_tokens(limiter[th[t].kind], th[t].at)
          /\ (th[t].pc = "load" /\ th'[t].pc = "acquire") =>
                 th'[t].count = limiter[th[t].kind].tokens /\ limiter' = limiter
          /\ (th[t].pc = "acquire" /\ th'[t].pc = "idle") =>
                 LET s == th[t].kind
                     n == th[t].step
                 IN  /\ result'[t].kind = "try_acquire" /\ result'[t].count = n
                     /\ IF limiter[s].tokens >= n
                        THEN /\ result'[t].status = "ok"
                             /\ limiter'[s].tokens = limiter[s].tokens - n
                        ELSE /\ result'[t].status = "rate_limited"
                             /\ limiter'[s].tokens = limiter[s].tokens
          /\ (result'[t].kind = "save" /\ th[t].pc = "idle" /\ th'[t].pc # "lock"
              /\ <<limiter, result, th>>' # <<limiter, result, th>>) =>
                 /\ IF Held("memory") >= 1
                    THEN /\ result'[t].status = "pending"
                         /\ limiter'["memory"].tokens = Held("memory") - 1
                    ELSE /\ result'[t].status = "rate_limited"
                         /\ limiter'["memory"].tokens = Held("memory")
                 /\ ticks = 0 =>
                        (result'[t].status = "rate_limited"
                            <=> SavesCommitted >= config.max_requests_per_minute)]_vars

\* Without any refill, five saves have committed and the sixth has been
\* refused with RateLimitExceeded.
C4_Witness ==
    /\ ticks = 0
    /\ SavesCommitted = 5
    /\ limiter["session"].tokens < limiter["session"].max_tokens
    /\ \E t \in Threads : result[t].kind = "save" /\ result[t].status = "rate_limited"

(***************************************************************************)
(* Write transactions under transient storage failures: saves and deletes  *)
(* whose statements or commit may fail and are retried.                    *)
(***************************************************************************)
InitTx == InitWith(MainConfig, DefaultPolicy, Ids)

NextTx ==
    \/ \E t \in Threads : CreateSession(t, "u2")
    \/ \E t \in Threads, m \in {ApplePie, Supplied} :
           RowidsLeft(MaxRowid) /\ SaveMemory(t, m)
    \/ \E t \in Threads, id \in Ids : DeleteMemory(t, id)
    \/ \E t \in Threads : TxStatement(t)
    \/ \E t \in Threads : TxCommit(t)
    \/ \E t \in Threads : TxFault(t)
    \/ Tick(HourMinutes)

SpecTx == InitTx /\ [][NextTx]_vars

\* The three effects of a committed save of row w are all in the storage.
SaveApplied(w) ==
    /\ \E r \in memories' :
           /\ r.id = w.id /\ r.content = w.content
           /\ FtsEntries(r.rowid, r.content) \subseteq fts'
    /\ sessions'[w.session_id] = w.updated_at

\* C7: a save commits its memory row, its FTS entry and the session's
\* last_active together or not at all.  The stored state changes only in the
\* step in which a transaction commits, and then a save has applied all
\* three effects; a failed attempt that is retried changes nothing; a call
\* that returns an error leaves the stored state as it was when the call
\* began.  (create_session, a single INSERT of a session row, is the one
\* other step that changes the stored state.)
C7_AtomicSave ==
    [][/\ Storage' # Storage =>
              \E t \in Threads :
                  \/ /\ th[t].pc = "tx" /\ th'[t].pc # "tx"
                     /\ result'[t].status \in {"ok", "not_found"}
                     /\ th[t].tx = "save" => SaveApplied(th[t].row)
                  \/ /\ th[t].pc = "idle" /\ result'[t].kind = "create_session"
                     /\ memories' = memories /\ fts' = fts
       /\ \A t \in Threads :
              (th[t].pc = "tx" /\ result'[t].status = "db_error") =>
                  /\ Storage' = Storage
                  /\ Storage' = th[t].snap]_vars

\* A save has returned an error after its third failed attempt while an
\* earlier memory stays stored.
C7_Witness ==
    /\ memories # {}
    /\ faults >= max_attempts
    /\ \E t \in Threads : result[t].kind = "save" /\ result[t].status = "db_error"


(***************************************************************************)
(* Writes and the decay engine, under a policy that expires after one      *)
(* hour.                                                                   *)
(***************************************************************************)
EagerPolicy == [DefaultPolicy EXCEPT !.max_age_hours = 1]
\* max_age_hours below its range.
AgelessPolicy == [DefaultPolicy EXCEPT !.max_age_hours = 0]

InitDecay == InitWith(MainConfig, EagerPolicy, 1..MaxDecayIds)

NextDecay ==
    \/ \E t \in Threads : CreateSession(t, "u1")
    \/ \E t \in Threads, m \in {Faint, TooImportant} :
           RowidsLeft(MaxDecayRowid) /\ SaveMemory(t, m)
    \/ \E t \in Threads :
           RowidsLeft(MaxDecayRowid - 1) /\ SaveBatch(t, <<Faint, Faint>>, TRUE)
    \/ \E t \in Threads : BatchNext(t)
    \/ \E t \in Threads, id \in 1..MaxDecayIds :
           RowidsLeft(MaxDecayRowid) /\ UpdateMemory(t, id, Overboost)
    \/ \E t \in Threads : RowidsLeft(MaxDecayRowid) /\ RunDecay(t)
    \/ \E t \in Threads, p \in {DefaultPolicy, EagerPolicy, AgelessPolicy} :
           update_policy(t, p)
    \/ \E t \in Threads : TxStatement(t)
    \/ \E t \in Threads : TxCommit(t)
    \/ Tick(HourMinutes)

SpecDecay == InitDecay /\ [][NextDecay]_vars

\* C3: after any successful write (save_memory, save_memories_batch,
\* update_memory, or a compressed memory written by run_decay) the stored
\* importance of every memory is in [0, 1], here 0..ImportanceMax.
C3_ImportanceInRange ==
    \A r \in memories : r.importance >= 0 /\ r.importance <= ImportanceMax

\* An update that asked for importance 1.2 has rewritten a memory saved with
\* importance 0.2 within the minute of its save: the row holds importance 1.0.
C3_Witness ==
    /\ \E r \in memories : r.importance = ImportanceMax /\ r.created_at = r.updated_at
    /\ \E t \in Threads, r \in memories :
           /\ result[t].kind = "update" /\ result[t].status = "ok"
           /\ r.id = result[t].id /\ r.importance = ImportanceMax

(***************************************************************************)
(* A recall running beside the writes of another caller.                   *)
(***************************************************************************)
MaxRecallRowid == 2

Everything == [DefaultFilter EXCEPT !.limit = MaxLimit]

InitRecall == InitWith(MainConfig, DefaultPolicy, Ids)

NextRecall ==
    \/ \E t \in Threads, u \in UserIds : CreateSession(t, u)
    \/ \E t \in Threads, m \in {ApplePie, Tagged} :
           RowidsLeft(MaxRecallRowid) /\ SaveMemory(t, m)
    \/ \E t \in Threads, id \in Ids : DeleteMemory(t, id)
    \/ \E t \in Threads : TxStatement(t)
    \/ \E t \in Threads : TxCommit(t)
    \/ \E f \in {Unpaged, [Unpaged EXCEPT !.user_id = "u1"], Everything} :
           RecallCount(f)
    \/ RecallPage

SpecRecall == InitRecall /\ [][NextRecall]_vars

\* C11: under concurrent saves and deletes every recall response comes from
\* one snapshot: its total_count is the number of matching rows in the state
\* its page of data was read from.
C11_SingleSnapshot ==
    [][(rd.pc = "page" /\ rd'.pc = "idle" /\ ~rd'.response.error) =>
           rd'.response.total_count = count_query(Storage, rd.filter, now)]_vars

(***************************************************************************)
(* Calls made one after another: the clock advances between calls, never   *)
(* during one, so that a call sees one time from its start to its return.  *)
(***************************************************************************)
IdleTick(d) == (\A t \in Threads : th[t].pc = "idle") /\ Tick(d)

InitSequential == InitWith(MainConfig, DefaultPolicy, Ids)

NextSequential ==
    \/ \E t \in Threads : CreateSession(t, "u2")
    \/ \E t \in Threads, m \in {Tagged, Shortlived} :
           RowidsLeft(MaxRowid) /\ SaveMemory(t, m)
    \/ \E t \in Threads, id \in Ids, u \in {ToBanana, Overboost, ClearTtl} :
           RowidsLeft(MaxRowid) /\ UpdateMemory(t, id, u)
    \/ \E t \in Threads, id \in Ids : DeleteMemory(t, id)
    \/ \E t \in Threads : TxStatement(t)
    \/ \E t \in Threads : TxCommit(t)
    \/ \E d \in {1, HourMinutes} : IdleTick(d)

SpecSequential == InitSequential /\ [][NextSequential]_vars

\* No stored row with this id, or only an expired one.
MissingOrExpired(id) == \A r \in RowsById(Storage, id) : Expired(r, now)

\* This step is a call of update_memory by t, and the id it was called with.
UpdateCalled(t) ==
    /\ th[t].pc = "idle"
    /\ \/ th'[t].pc = "tx" /\ th'[t].kind = "update"
       \/ th'[t].pc = "idle" /\ result'[t].kind = "update" /\ result'[t] # result[t]

UpdatedId(t) == IF th'[t].pc = "tx" THEN th'[t].id ELSE result'[t].id

\* This step is the return of a delete_memory call of t.
DeleteReturned(t) == th[t].pc = "tx" /\ th[t].kind = "delete" /\ th'[t].pc = "idle"

\* Through the MemoryManager: get_memory, update_memory and delete_memory of an
\* id without a visible row return None / false and leave every stored memory
\* as it was.  No row of a Database has an expires_at, so that the ids without
\* a visible row are the ids without a row.
NotFoundInStore ==
    [][\A t \in Threads :
          /\ \A id \in Ids : MissingOrExpired(id) => get_memory(Storage, id, now) = {}
          /\ (UpdateCalled(t) /\ MissingOrExpired(UpdatedId(t))) =>
                 /\ th'[t].pc = "idle"
                 /\ result'[t].status = "not_found"
                 /\ memories' = memories
          /\ (DeleteReturned(t) /\ MissingOrExpired(th[t].id)) =>
                 /\ result'[t].status = "not_found"
                 /\ memories' = memories]_vars

\* This step is the return of an update_memory call of t that returned true.
UpdateReturned(t) ==
    /\ th[t].pc = "tx" /\ th[t].kind = "update"
    /\ th'[t].pc = "idle" /\ result'[t].status = "ok"

\* C13: update_memory changes only the fields present in the update: absent
\* fields keep their stored value, id, user_id, session_id and created_at
\* never change, and an update that sets ttl_hours to none clears ttl_hours
\* and expires_at.  The embedding stored for a memory is a field no update
\* names.  (updated_at is the time of the write and is left out.)
C13_UpdateFrame ==
    [][\A t \in Threads : UpdateReturned(t) =>
          \A old \in RowsById(Storage, th[t].id) :
             /\ \E new \in memories' : new.id = old.id
             /\ old.id \in DOMAIN memory_embeddings =>
                   /\ old.id \in DOMAIN memory_embeddings'
                   /\ memory_embeddings'[old.id] = memory_embeddings[old.id]
             /\ \A new \in memories' : new.id = old.id =>
                   LET u == th[t].updates
                   IN  /\ new.user_id = old.user_id
                       /\ new.session_id = old.session_id
                       /\ new.created_at = old.created_at
                       /\ new.is_compressed = old.is_compressed
                       /\ new.compressed_from = old.compressed_from
                       /\ "content" \notin u.set => new.content = old.content
                       /\ "importance" \notin u.set => new.importance = old.importance
                       /\ "metadata" \notin u.set =>
                              from_json(new.metadata) = from_json(old.metadata)
                       /\ "ttl_hours" \notin u.set =>
                              /\ new.ttl_hours = old.ttl_hours
                              /\ new.expires_at = old.expires_at
                       /\ ("ttl_hours" \in u.set /\ u.ttl_hours = NoValue) =>
                              /\ new.ttl_hours = NoValue
                              /\ new.expires_at = NoValue
                   ]_vars

(***************************************************************************)
(* Batch saves under the default configuration: a batch is a list of valid *)
(* and invalid memories, saved into an empty store with a full bucket.     *)
(***************************************************************************)
MaxBatchIds == 3

Nameless == Item(EmptyId, "", "s1", {"apple"}, {}, MIN_UTC, 5 * Tenth, NoValue)

DefaultConfig ==
    [enable_request_limits |-> TRUE, max_requests_per_minute |-> 1000,
     max_batch_size |-> 100]

Eleven == [i \in 1..11 |-> Blank]

Batches ==
    {<<ApplePie, Nameless, Shortlived, TooImportant, Faint>>,
     <<Bulky, ApplePie>>, <<ApplePie, Shortlived>>, <<Blank>>, Eleven}

InitBatch == InitWith(DefaultConfig, DefaultPolicy, 1..MaxBatchIds)

NextBatch ==
    \/ \E t \in Threads, u \in UserIds : CreateSession(t, u)
    \/ \E t \in Threads, b \in Batches, f \in BOOLEAN :
           /\ memories = {}
           /\ limiter["memory"].tokens = limiter["memory"].max_tokens
           /\ SaveBatch(t, b, f)
    \/ \E t \in Threads : BatchNext(t)
    \/ \E t \in Threads : TxStatement(t)
    \/ \E t \in Threads : TxCommit(t)

SpecBatch == InitBatch /\ [][NextBatch]_vars

\* The batch loop of thread t returns its response in this step.
BatchReturned(t) == th[t].pc = "batch" /\ th[t].queue = <<>> /\ th'[t].pc = "idle"

\* Result i of the response is a success whose memory, the i-th item of the
\* request, is stored under the returned id.
PersistedAs(m, idv, rows) ==
    \E r \in rows : /\ r.id = idv
                    /\ r.user_id = m.user_id /\ r.session_id = m.session_id
                    /\ r.content = m.content /\ r.importance = m.importance

OkIds(results) == {results[i].id : i \in {j \in DOMAIN results : results[j].status = "ok"}}

\* No save of the batch was refused by the rate limiter.
Admitted(results) == \A i \in DOMAIN results : results[i].status # "rate_limited"

\* C15: with fail_on_error = false a batch save attempts every item: the
\* response holds one result per item and success_count + error_count is the
\* number of items; when the bucket admitted every item, result i is a
\* success exactly when item i is valid, every valid item is stored under its
\* returned id and nothing else is stored.
C15_BatchContinues ==
    [][\A t \in Threads :
         (BatchReturned(t) /\ ~th[t].fail_on_error) =>
             LET res == result'[t].results
                 req == th[t].request
             IN  /\ Len(res) = Len(req)
                 /\ result'[t].success_count + result'[t].error_count = Len(req)
                 /\ Cardinality(memories') = result'[t].success_count
                 /\ {r.id : r \in memories'} = OkIds(res)
                 /\ Admitted(res) => \A i \in DOMAIN req :
                       /\ (res[i].status = "ok") <=> Acceptable(req[i])
                       /\ res[i].status = "ok" => PersistedAs(req[i], res[i].id, memories')]_vars

\* The first item of the request that is not valid, or one past its end.
FirstInvalid(req) ==
    Min({i \in DOMAIN req : ~Acceptable(req[i])} \cup {Len(req) + 1})

\* C16: with fail_on_error = true a batch save stops at the first failing
\* item: the response holds a result for each item up to and including it and
\* none after, so at most one error, the last result; every item before it
\* is stored under its returned id, and the failing item and the items after
\* it are not stored.  When the bucket admitted every item, the batch does
\* not go past the first invalid item of the request.
C16_BatchStops ==
    [][\A t \in Threads :
         (BatchReturned(t) /\ th[t].fail_on_error) =>
             LET res == result'[t].results
                 req == th[t].request
                 n == Len(res)
             IN  /\ n <= Len(req)
                 /\ \A i \in 1..(n - 1) : res[i].status = "ok"
                 /\ IF n > 0 /\ res[n].status # "ok"
                    THEN result'[t].error_count = 1
                    ELSE result'[t].error_count = 0 /\ n = Len(req)
                 /\ result'[t].success_count = n - result'[t].error_count
                 /\ \A i \in 1..n :
                       res[i].status = "ok" => PersistedAs(req[i], res[i].id, memories')
                 /\ {r.id : r \in memories'} = OkIds(res)
                 /\ Cardinality(memories') = result'[t].success_count
                 /\ Admitted(res) =>
                        /\ n <= MinOf(FirstInvalid(req), Len(req))
                        /\ \A i \in 1..n : res[i].status = "ok" => Acceptable(req[i])]_vars

\* The five-item batch stopped at its second item: one success, one error,
\* one row stored, which only a request with fail_on_error = true produces.
C16_Witness ==
    \E t \in Threads :
        /\ result[t].kind = "batch" /\ th[t].pc = "idle"
        /\ Len(result[t].results) = 2
        /\ result[t].results[1].status = "ok"
        /\ result[t].results[2].status = "invalid"
        /\ result[t].error_count = 1
        /\ \E r \in memories : r.id = result[t].results[1].id /\ r.user_id = "u1"
        /\ Cardinality(memories) = 1

\* The tokens a step takes from the memory service's bucket.
Debit == limiter["memory"].tokens - limiter'["memory"].tokens

\* C17: a batch save of n items takes exactly max(1, ceil(n / 10)) tokens
\* from the bucket: that many when the call is admitted, and none while its
\* items are saved.
C17_BatchDebit ==
    [][\A t \in Threads :
         /\ (th[t].pc = "idle" /\ th'[t].pc = "batch") =>
                Debit = MaxOf(1, CeilDiv(Len(th'[t].request), 10))
         /\ th[t].pc = "batch" => Debit = 0]_vars

\* The tokens granted through the validator of service s since construction,
\* while no refill has happened.
Granted(s) == limiter[s].max_tokens - limiter[s].tokens

\* C18: the services of one process draw from a single bucket: every
\* service's validator holds the same number of tokens, and before the first
\* refill the tokens granted through all of them together do not exceed
\* max_requests_per_minute.
C18_SharedBucket ==
    /\ \A s1, s2 \in Services : Held(s1) = Held(s2)
    /\ now = 1 =>
          Granted("memory") + Granted("session") + Granted("decay")
              <= config.max_requests_per_minute

\* C19: the bucket refills at max_requests_per_minute tokens per minute up to
\* its capacity: a bucket never holds more than its capacity, and a drained
\* bucket holds max_requests_per_minute tokens again once a full minute has
\* passed since its last acquisition.
C19_RefillRate ==
    \A s \in Services :
        /\ limiter[s].tokens <= limiter[s].max_tokens
        /\ Held(s) <= limiter[s].max_tokens
        /\ (limiter[s].tokens = 0 /\ now - limiter[s].last_refill >= 1) =>
               Held(s) = config.max_requests_per_minute

(***************************************************************************)
(* Write calls under failures that may strike any attempt, any number of  *)
(* times.  The calling thread keeps running: it executes its next          *)
(* statement, commits, or meets a failure.                                 *)
(***************************************************************************)
MaxRetryRowid == 2

TxFailure(t) == Fail(t) /\ UNCHANGED faults

\* get_connection fails at the start of an attempt: the pool's error is
\* returned at once, whatever the attempt.
ConnectionFailure(t) ==
    /\ th[t].pc = "tx" /\ th[t].step = 0
    /\ Return(t, th[t], th[t].kind, "pool_error", th[t].id, 0)
    /\ UNCHANGED <<memories, fts, sessions, users, memory_embeddings, system_config,
                   INSTANCES, INSTANCE_COUNTER, issued, tokens_granted, now,
                   ticks, limiter, config, policy, rd, recursive_triggers,
                   id_pool, faults, accepted>>

InitRetry == InitWith(MainConfig, DefaultPolicy, Ids)

ThreadRuns ==
    \E t \in Threads :
        TxStatement(t) \/ TxCommit(t) \/ TxFailure(t) \/ ConnectionFailure(t)

NextRetry ==
    \/ \E t \in Threads, u \in UserIds : CreateSession(t, u)
    \/ \E t \in Threads, m \in {ApplePie, Shortlived} :
           RowidsLeft(MaxRetryRowid) /\ SaveMemory(t, m)
    \/ \E t \in Threads, id \in Ids : DeleteMemory(t, id)
    \/ \E t \in Threads : TxStatement(t)
    \/ \E t \in Threads : TxCommit(t)
    \/ \E t \in Threads : TxFailure(t)
    \/ \E t \in Threads : ConnectionFailure(t)

SpecRetry == InitRetry /\ [][NextRetry]_vars /\ WF_vars(ThreadRuns)

\* The statuses with which a write call returns.
Returns == {"ok", "not_found", "db_error", "pool_error"}

\* C20: a write transaction is attempted at most max_attempts = 3 times: the
\* attempt counter never passes 3; a step of the third attempt either goes on
\* with that attempt's next statement or returns to the caller, so a failure
\* of the third attempt returns its error, and a transaction's error is
\* returned by the third attempt only; and every write call returns, with a
\* result or with an error.
C20_BoundedRetry ==
    /\ [](\A t \in Threads : th[t].attempts <= max_attempts)
    /\ [][\A t \in Threads :
            /\ (th[t].pc = "tx" /\ th[t].attempts = max_attempts) =>
                   \/ /\ th'[t].pc = "tx" /\ th'[t].attempts = max_attempts
                      /\ th'[t].step = th[t].step + 1
                   \/ th'[t].pc = "idle" /\ result'[t].status \in Returns
            /\ (th[t].pc = "tx" /\ th'[t].pc = "idle"
                /\ result'[t].status = "db_error") =>
                   th[t].attempts = max_attempts]_vars
    /\ \A t \in Threads :
           (th[t].pc = "tx") ~> (th[t].pc = "idle" /\ result[t].status \in Returns)

\* A delete has returned the error of its third failed attempt while a
\* memory saved before it stays stored.
C20_Witness ==
    \E t \in Threads :
        /\ th[t].pc = "idle"
        /\ result[t].kind = "delete" /\ result[t].status = "db_error"
        /\ memories # {}

(***************************************************************************)
(* Write calls with no contention at all: the only failures are those of   *)
(* the statements themselves.                                              *)
(***************************************************************************)
MaxConstraintRowid == 3

Orphan == Item(EmptyId, "u1", "s3", {"apple"}, {}, MIN_UTC, 5 * Tenth, NoValue)

InitConstraint == InitWith(MainConfig, DefaultPolicy, 1..3)

NextConstraint ==
    \/ \E t \in Threads, u \in UserIds : CreateSession(t, u)
    \/ \E t \in Threads, m \in {ApplePie, Shortlived, Orphan} :
           RowidsLeft(MaxConstraintRowid) /\ id_pool # {} /\ SaveMemory(t, m)
    \/ \E t \in Threads, m \in {ApplePie, Blank, Spaces} :
           /\ RowidsLeft(MaxConstraintRowid) /\ id_pool # {}
           /\ DatabaseSaveMemory(t, [m EXCEPT !.created_at = now])
    \/ \E t \in Threads, id \in Ids : DeleteMemory(t, id)
    \/ \E t \in Threads : TxStatement(t)
    \/ \E t \in Threads : TxCommit(t)

SpecConstraint == InitConstraint /\ [][NextConstraint]_vars

\* C21: the storage layer retries transient lock contention only: where no
\* contention occurs, a write whose statement fails (a constraint violation)
\* is executed once, so no transaction reaches a second attempt.
C21_OnlyContentionRetried == \A t \in Threads : th[t].attempts <= 1

(***************************************************************************)
(* Several threads saving through clones of one Database.  Each thread has *)
(* its own pooled connection; a lock wait ends before busy_timeout because *)
(* a transaction is three statements long.                                 *)
(***************************************************************************)
MaxWriters == 2
MaxConcurrentIds == 3

Writers == 1..MaxWriters

InitConcurrent == InitThreads(MainConfig, DefaultPolicy, 1..MaxConcurrentIds, Writers)

WriterRuns(t) == TxStatement(t) \/ TxCommit(t)

NextConcurrent ==
    \/ \E t \in Writers, u \in UserIds : CreateSession(t, u)
    \/ \E t \in Writers, m \in {ApplePie, Shortlived} :
           id_pool # {} /\ th[t].pc = "idle" /\ SaveMemory(t, m)
    \/ \E t \in Writers : TxStatement(t)
    \/ \E t \in Writers : TxCommit(t)

SpecConcurrent ==
    InitConcurrent /\ [][NextConcurrent]_vars /\ \A t \in Writers : WF_vars(WriterRuns(t))

\* The ids the saves begun so far were given.
SavedIds == (1..MaxConcurrentIds) \ id_pool

\* C22: when several threads save distinct memories concurrently through
\* the same database, every save succeeds and every memory is stored: no
\* save returns an error, every save returns, and once the threads are done
\* each saved id is stored once and a recall of everything, without limit
\* and offset, reports a total_count equal to the number of saves.
C22_ConcurrentSaves ==
    /\ [](\A t \in Writers :
             result[t].kind = "save" => result[t].status \in {"pending", "ok"})
    /\ []((\A t \in Writers : th[t].pc = "idle") =>
            /\ {r.id : r \in memories} = SavedIds
            /\ \A pd \in BOOLEAN :
                  recall_memories(Storage, Unpaged, now, pd).total_count
                      = Cardinality(SavedIds))
    /\ \A t \in Writers : (th[t].pc = "tx") ~> (th[t].pc = "idle" /\ result[t].status = "ok")

(***************************************************************************)
(* Properties of a decay run made while no other call is in progress.      *)
(***************************************************************************)
\* Thread t makes a run of the decay engine in this step.
DecayStep(t) ==
    /\ th[t].pc = "idle" /\ th'[t].pc = "idle" /\ now' = now
    /\ result'[t].kind = "decay" /\ result'[t].status # "rate_limited"
    /\ <<result, memories, fts>>' # <<result, memories, fts>>

\* The unexpired rows of a memories table at time t, compressed ones included.
ActiveRows(rows, t) == {r \in rows : Active(r, t)}

\* C23: with no concurrent saves, the number of active memories after
\* run_decay is at most the number before it, in the table (compressed
\* memories counted or not) and in the returned stats
\* (total_memories_after <= total_memories_before).
C23_DecayNonGrowth ==
    [][\A t \in Threads :
         DecayStep(t) =>
             /\ Cardinality(ActiveRows(memories', now))
                    <= Cardinality(ActiveRows(memories, now))
             /\ Cardinality({r \in ActiveRows(memories', now) : ~r.is_compressed})
                    <= Cardinality({r \in ActiveRows(memories, now) : ~r.is_compressed})
             /\ result'[t].total_memories_after <= result'[t].total_memories_before]_vars

\* A run has returned its stats while memories are stored.
C23_Witness ==
    \E t \in Threads :
        /\ result[t].kind = "decay" /\ result[t].status \in {"failed", "completed"}
        /\ Cardinality(ActiveRows(memories, now)) >= 2

(***************************************************************************)
(* Decay of memories saved with a creation time in the past, as             *)
(* test_memory_compression and test_memory_decay_integration save them      *)
(* (created_at = now - 25 h), under a policy of max_age_hours = 24.         *)
(***************************************************************************)
\* The clock at the start: 25 hours after time 1.
ScenarioStart == 25 * HourMinutes + 1

ScenarioPolicy == [DefaultPolicy EXCEPT !.max_age_hours = 24]

\* Importance 0.2, created 25 hours before the start.
Aged == Item(EmptyId, "u1", "s1", {"apple"}, {}, 1, 2 * Tenth, NoValue)
\* Importance 0.2, created 13 hours before the start.
HalfAged == Item(EmptyId, "u1", "s1", {"banana"}, {}, ScenarioStart - 13 * HourMinutes, 2 * Tenth, NoValue)
\* Importance 0.3, created 25 hours before the start.
AgedImportant == Item(EmptyId, "u1", "s1", {"apple"}, {}, 1, 3 * Tenth, NoValue)

\* The caller names the id of each memory it saves: the least id not yet used.
InitAging == InitAt(MainConfig, ScenarioPolicy, 1..MaxAgingIds, Threads, ScenarioStart)

NextAging ==
    \/ \E t \in Threads : CreateSession(t, "u1")
    \/ \E t \in Threads, m \in {Aged, HalfAged, AgedImportant} :
           /\ RowidsLeft(MaxAgingRowid) /\ id_pool # {}
           /\ SaveMemory(t, [m EXCEPT !.id = Min(id_pool)])
    \/ \E t \in Threads : RunDecay(t)
    \/ Tick(12 * HourMinutes)
    \/ \E t \in Threads : TxStatement(t)
    \/ \E t \in Threads : TxCommit(t)

SpecAging == InitAging /\ [][NextAging]_vars

\* The ids a recall of everything and the searches of each user return from
\* storage D at time t.
ReturnedFrom(D, t) ==
    UNION {LET pages == {recall_memories(D, Unpaged, t, pd)}
                        \cup {search_memories(config, limiter["memory"], D, u, q,
                                              NoValue, NoValue, t, pd).response :
                                 u \in UserIds, q \in (SUBSET Vocabulary) \ {{}}}
           IN  UNION {{p.data[i].id : i \in DOMAIN p.data} : p \in pages} :
           pd \in BOOLEAN}

ReturnedIds == ReturnedFrom(Storage, now)

\* The rows of storage D a run at time t is to compress, by the policy: active,
\* not compressed, older than max_age_hours / 2, importance below the threshold.
Compressible(D, pol, t) ==
    {r \in D.memories :
        /\ Active(r, t) /\ ~r.is_compressed
        /\ r.created_at <= t - (pol.max_age_hours \div 2) * HourMinutes
        /\ r.importance < pol.importance_threshold}

\* C25: with compression enabled, run_decay replaces each group of three or
\* more memories of one (user_id, session_id) that are older than
\* max_age_hours / 2 and below the importance threshold by exactly one new
\* memory with is_compressed = true whose compressed_from lists exactly the
\* ids of the group (five memories aged 25 h of importance 0.2 under
\* max_age_hours = 24 give one compressed memory of five).
C25_GroupsCompressed ==
    [][\A t \in Threads :
         (DecayStep(t) /\ policy.compression_enabled) =>
             \A u \in UserIds, sid \in SessionIds :
                 LET group == {r \in Compressible(Storage, policy, now) :
                                  r.user_id = u /\ r.session_id = sid}
                     ids == {r.id : r \in group}
                     made == {c \in memories' :
                                 /\ c.is_compressed
                                 /\ \A r \in memories : r.id # c.id
                                 /\ c.user_id = u /\ c.session_id = sid}
                 IN  Cardinality(group) >= 3 =>
                         /\ Cardinality(made) = 1
                         /\ \A c \in made : /\ Ran(c.compressed_from) = ids
                                             /\ Len(c.compressed_from) = Cardinality(ids)
                         /\ \A r \in memories' : r.id \notin ids]_vars

\* C26: run_decay never deletes or compresses a memory whose importance is at
\* least importance_threshold and whose TTL has not expired: every such memory
\* is stored unchanged and returned by recall after the run.
C26_ImportantSurvive ==
    [][\A t \in Threads :
         DecayStep(t) =>
             \A r \in memories :
                 (/\ r.importance >= policy.importance_threshold
                  /\ Active(r, now) /\ ~r.is_compressed)
                 => r \in memories' /\ r.id \in ReturnedFrom(Storage', now)]_vars

\* A run has returned, and a memory older than max_age_hours whose
\* importance is above the threshold is still stored and recalled.
C26_Witness ==
    /\ \E t \in Threads : result[t].kind = "decay" /\ result[t].status = "failed"
    /\ \E r \in memories :
           /\ r.importance >= policy.importance_threshold
           /\ r.created_at <= now - policy.max_age_hours * HourMinutes
           /\ Active(r, now)
           /\ r.id \in ReturnedIds

\* C27: after run_decay no active memory remains that is older than
\* max_age_hours and has importance below importance_threshold, however many
\* such memories there were before the run.
C27_OldUnimportantPurged ==
    [][\A t \in Threads :
         DecayStep(t) =>
             \A r \in memories' :
                 ~(/\ Active(r, now)
                   /\ r.created_at <= now - policy.max_age_hours * HourMinutes
                   /\ r.importance < policy.importance_threshold)]_vars

(***************************************************************************)
(* Runs of the decay engine over stored memories.                          *)
(***************************************************************************)
InitFaulty == InitWith(MainConfig, EagerPolicy, 1..MaxFaultyIds)

NextFaulty ==
    \/ \E t \in Threads, u \in UserIds : CreateSession(t, u)
    \/ \E t \in Threads : RowidsLeft(MaxFaultyRowid) /\ SaveMemory(t, Faint)
    \/ \E t \in Threads : RunDecay(t)
    \/ \E t \in Threads : TxStatement(t)
    \/ \E t \in Threads : TxCommit(t)

SpecFaulty == InitFaulty /\ [][NextFaulty]_vars

\* The stats record of a run that got past the rate limiter.
DecayReturned(t) == result[t].kind = "decay" /\ result[t].status # "rate_limited"

\* C28: the DecayStats returned by run_decay has status failed iff at least one
\* phase of the run failed, and status completed otherwise.  The phases are
\* the steps after the initial count.
C28_FailedIffPhaseFailed ==
    \A t \in Threads :
        DecayReturned(t) =>
            /\ result[t].status \in {"failed", "completed"}
            /\ result[t].status = "failed" <=> result[t].failed \ {"count"} # {}

\* The phases of a run under the policy in force.
AllSteps ==
    {"expire", "limits"}
        \cup (IF policy.compression_enabled THEN {"compress"} ELSE {})
        \cup (IF policy.auto_summarize_sessions THEN {"summarize"} ELSE {})

\* C29: a failure during a run never aborts it and never reaches the caller as
\* an error: a run that got past the rate limiter returns a stats record, has
\* gone through every phase the policy enables and, when a step of it failed,
\* carries the error message.
C29_FailureContinues ==
    \A t \in Threads :
        DecayReturned(t) =>
            /\ result[t].status \in {"failed", "completed"}
            /\ AllSteps \subseteq result[t].ran
            /\ result[t].failed # {} => result[t].error_message # ""

(***************************************************************************)
(* Decay under a quota of one memory for each user.                        *)
(***************************************************************************)
QuotaPolicy == [DefaultPolicy EXCEPT !.max_memories_per_user = 1]

\* MindCacheConfig with the same quota.
QuotaConfig ==
    [enable_request_limits |-> FALSE, max_requests_per_minute |-> 1000,
     max_batch_size |-> 100, max_memories_per_user |-> 1]

InitQuota == InitWith(QuotaConfig, QuotaPolicy, 1..MaxQuotaIds)

NextQuota ==
    \/ \E t \in Threads, u \in UserIds : CreateSession(t, u)
    \/ \E t \in Threads, m \in {ApplePie, Faint, Tagged} :
           RowidsLeft(MaxQuotaRowid) /\ SaveMemory(t, m)
    \/ \E t \in Threads : RunDecay(t)
    \/ \E t \in Threads : TxStatement(t)
    \/ \E t \in Threads : TxCommit(t)

SpecQuota == InitQuota /\ [][NextQuota]_vars

\* The unexpired memories of user u among rows at time t.
MemoriesOf(rows, u, t) == {r \in ActiveRows(rows, t) : r.user_id = u}

\* C30: after run_decay no user has more than max_memories_per_user active
\* memories, and the memories removed to reach the quota are the user's
\* lowest-importance ones, the oldest first among equal importance.
C30_QuotaEnforced ==
    [][\A t \in Threads :
         DecayStep(t) =>
             \A u \in UserIds :
                 LET kept == MemoriesOf(memories', u, now)
                     removed == MemoriesOf(memories, u, now) \ kept
                 IN  /\ Cardinality(kept) <= policy.max_memories_per_user
                     /\ \A r \in removed, k \in kept :
                            \/ r.importance < k.importance
                            \/ /\ r.importance = k.importance
                               /\ r.created_at <= k.created_at]_vars

\* RequestValidator::validate_user_quota: Ok iff the recall of the user with
\* limit 1 returns Ok and its total_count is below max_memories_per_user.
\* No function of the crate calls it.
validate_user_quota(D, cfg, user_id, t) ==
    LET response == recall_memories(D, [DefaultFilter EXCEPT !.user_id = user_id,
                                                             !.limit = 1], t, FALSE)
    IN  ~response.error /\ response.total_count < cfg.max_memories_per_user

\* A save_memory call of thread t for user u passes its checks in this step
\* and opens the write transaction that stores the memory.
SaveOpens(t, u) ==
    /\ th[t].pc = "idle" /\ th'[t].pc = "tx"
    /\ th'[t].kind = "save" /\ th'[t].tx = "save"
    /\ th'[t].row.user_id = u

\* C31: a save for a user who already has max_memories_per_user active
\* memories fails with a quota-exceeded error and stores nothing: the call
\* never gets as far as the write transaction.
C31_QuotaOnSave ==
    [][\A t \in Threads, u \in UserIds :
         Cardinality(MemoriesOf(memories, u, now)) >= config.max_memories_per_user
             => ~SaveOpens(t, u)]_vars

(***************************************************************************)
(* Sessions (core/session.rs).  The rows of the sessions table are those    *)
(* create_session has inserted; session s1 belongs to user u1, s2 to u2.    *)
(***************************************************************************)
\* The limit delete_session asks of recall_memories.
DeleteSessionLimit == 10000

\* Database::get_user_sessions: the ids of the sessions rows of the user.
get_user_sessions(D, user_id) ==
    {sid \in DOMAIN D.sessions : SessionUser(sid) = user_id}

\* SessionManager::delete_session.  Its recall asks for limit 10000 and
\* returns an Err, which ends the call; without delete_memories it returns
\* Ok(true).  The session row is not touched (the database layer has no
\* delete_session).
delete_session(t, session_id, delete_memories) ==
    LET v == validate_request(config, limiter["session"], 5, now)
    IN  /\ th[t].pc = "idle"
        /\ limiter' = [limiter EXCEPT !["session"] = v.limiter]
        /\ \E pd \in BOOLEAN :
             LET memories_response ==
                     recall_memories(Storage,
                                     [DefaultFilter EXCEPT !.session_id = session_id,
                                                           !.limit = DeleteSessionLimit],
                                     now, pd)
                 ids == {memories_response.data[i].id :
                             i \in DOMAIN memories_response.data}
                 failed == delete_memories /\ memories_response.error
                 D == IF v.granted /\ delete_memories /\ ~failed
                      THEN DeleteAll(Storage, ids, recursive_triggers)
                      ELSE Storage
             IN  /\ memories' = D.memories
                 /\ fts' = D.fts
                 /\ sessions' = D.sessions
                 /\ accepted' = {e \in accepted : \E r \in D.memories : r.id = e.id}
                 /\ result' = [result EXCEPT ![t] =
                        [NoResult EXCEPT
                            !.kind = IF delete_memories THEN "delete_session_memories"
                                     ELSE "delete_session",
                            !.status = IF ~v.granted THEN "rate_limited"
                                       ELSE IF failed THEN "invalid" ELSE "ok",
                            !.session = session_id]]
        /\ OnDeleteCascade
        /\ UNCHANGED <<users, system_config, INSTANCES,
                       INSTANCE_COUNTER, issued, tokens_granted, now, ticks,
                       config, policy, rd, recursive_triggers, id_pool, th,
                       faults>>

DeleteSession(t) ==
    \E sid \in SessionIds, delete_memories \in BOOLEAN :
        delete_session(t, sid, delete_memories)

InitSession == InitWith(MainConfig, DefaultPolicy, 1..MaxSessionIds)

NextSession ==
    \/ \E t \in Threads, u \in UserIds : CreateSession(t, u)
    \/ \E t \in Threads, m \in {ApplePie, Tagged, Bulky} :
           RowidsLeft(MaxSessionRowid) /\ SaveMemory(t, m)
    \/ \E t \in Threads : DeleteSession(t)
    \/ \E t \in Threads : TxStatement(t)
    \/ \E t \in Threads : TxCommit(t)

SpecSession == InitSession /\ [][NextSession]_vars

\* C33: delete_session with delete_memories = true removes every memory of the
\* session and then the session record: once it has returned, no recall
\* returns a memory of that session and get_user_sessions no longer lists it.
C33_SessionDeleted ==
    [][\A t \in Threads :
         (/\ th[t].pc = "idle" /\ th'[t].pc = "idle"
          /\ result'[t] # result[t] \/ Storage' # Storage
          /\ result'[t].kind = "delete_session_memories")
         => LET sid == result'[t].session
            IN  /\ result'[t].status = "ok"
                /\ \A r \in memories' :
                      r.session_id = sid => r.id \notin ReturnedFrom(Storage', now)
                /\ \A u \in UserIds : sid \notin get_user_sessions(Storage', u)]_vars

(***************************************************************************)
(* Vector search (database/vector.rs).  A vector is a sequence of          *)
(* non-negative integers; a similarity is kept in thousandths, rounded      *)
(* down, which orders the similarities of the vectors used here as f32      *)
(* does.  Weights are in tenths.                                            *)
(* memory_embeddings references memories (id) ON DELETE CASCADE: a row is   *)
(* stored for a memory that exists and goes with the row of its memory,     *)
(* also when INSERT OR REPLACE replaces that row.                           *)
(* The engine shares the pool of the Database.  Which of the pool's         *)
(* connections serves an attempt is the pool's choice; the function         *)
(* cosine_similarity exists on the connection initialize_schema ran on.     *)
(***************************************************************************)
SimilarityThreshold == 700
MaxResults == 50
SimilarityScale == 1000

Vectors ==
    UNION {[1..n -> 0..MaxComponent] :
               n \in (VectorDimension - 1)..VectorDimension}
ModelNames == {"m1", "m2"}
Weights == {0, 10}

\* The connections the pool keeps open (min_idle).
Connections == 1..min_connections

\* initialize_schema: create_scalar_function on the connection of its
\* transaction, here the first.
HasCosineSimilarity(conn) == conn = 1

\* The connections that serve the attempts of with_read_connection: the
\* first attempt has the function, a later one has it, none has it.
Servings ==
    {served \in [1..max_attempts -> Connections] :
        \A i \in 2..max_attempts : served[i] <= served[i - 1]}

RECURSIVE Dot(_, _)
Dot(a, b) ==
    IF a = <<>> THEN 0 ELSE Head(a) * Head(b) + Dot(Tail(a), Tail(b))

\* The largest x in lo..hi with x * x <= n.
RECURSIVE ISqrt(_, _, _)
ISqrt(n, lo, hi) ==
    IF lo >= hi THEN lo
    ELSE LET mid == (lo + hi + 1) \div 2
         IN  IF mid * mid <= n THEN ISqrt(n, mid, hi) ELSE ISqrt(n, lo, mid - 1)

\* cosine_similarity: 0 for vectors of different lengths or of norm 0.
cosine_similarity(a, b) ==
    IF Len(a) # Len(b) THEN 0
    ELSE LET dot_product == Dot(a, b)
             norms == Dot(a, a) * Dot(b, b)
         IN  IF norms = 0 THEN 0
             ELSE ISqrt((dot_product * dot_product * SimilarityScale * SimilarityScale)
                            \div norms, 0, SimilarityScale)

\* The embeddings joined to their memories: model matches, memory unexpired.
Candidates(model_name, t) ==
    {r \in memories :
        /\ r.id \in DOMAIN memory_embeddings
        /\ memory_embeddings[r.id].model_name = model_name
        /\ Active(r, t)}

\* ORDER BY score DESC LIMIT limit over the rows S; rows of equal score come
\* in any order.
Ranked(S, score(_), limit, q) ==
    LET n == Min({Cardinality(S), MaxResults,
                  IF limit = NoValue THEN MaxResults ELSE limit})
    IN  /\ q \in [1..n -> {r.id : r \in S}]
        /\ \A i, j \in 1..n : i # j => q[i] # q[j]
        /\ \A i \in 1..n : \A r, w \in S :
               (r.id = q[i] /\ (\A j \in 1..i : w.id # q[j])) => score(r) >= score(w)
        /\ \A i, j \in 1..n : \A r, w \in S :
               (i < j /\ r.id = q[i] /\ w.id = q[j]) => score(r) >= score(w)

VectorReturn(t, kind, vector, status, ids) ==
    /\ result' = [result EXCEPT ![t] =
            [NoResult EXCEPT !.kind = kind, !.status = status, !.results = ids,
                             !.count = Len(ids), !.dimension = Len(vector)]]
    /\ UNCHANGED <<memories, fts, sessions, users, system_config, INSTANCES,
                   INSTANCE_COUNTER, issued, tokens_granted, now, ticks,
                   limiter, config, policy, rd, recursive_triggers, id_pool, th,
                   faults, accepted>>

\* VectorSearchEngine::store_embedding.
store_embedding(t, memory_id, embedding, model_name) ==
    /\ th[t].pc = "idle"
    /\ \A w \in DOMAIN th : th[w].pc # "tx"
    /\ IF Len(embedding) # VectorDimension
       THEN /\ memory_embeddings' = memory_embeddings
            /\ VectorReturn(t, "store_embedding", embedding, "invalid", <<>>)
       ELSE IF \A r \in memories : r.id # memory_id
       THEN /\ memory_embeddings' = memory_embeddings
            /\ VectorReturn(t, "store_embedding", embedding, "db_error", <<>>)
       ELSE /\ memory_embeddings' =
                   [id \in DOMAIN memory_embeddings \cup {memory_id} |->
                       IF id = memory_id
                       THEN [embedding |-> embedding, model_name |-> model_name,
                             dimension |-> VectorDimension]
                       ELSE memory_embeddings[id]]
            /\ VectorReturn(t, "store_embedding", embedding, "ok", <<memory_id>>)

\* VectorSearchEngine::delete_embedding: Ok(rows_affected > 0), the removed
\* id being the result's one entry.
delete_embedding(t, memory_id) ==
    /\ th[t].pc = "idle"
    /\ \A w \in DOMAIN th : th[w].pc # "tx"
    /\ memory_embeddings' =
           [id \in DOMAIN memory_embeddings \ {memory_id} |-> memory_embeddings[id]]
    /\ VectorReturn(t, "delete_embedding", <<>>, "ok",
                    IF memory_id \in DOMAIN memory_embeddings
                    THEN <<memory_id>> ELSE <<>>)

\* VectorSearchEngine::search_similar; served[i] is the connection that
\* serves attempt i of with_read_connection.  On a connection without the
\* function the statement is not prepared and the attempt fails.
search_similar(t, query_embedding, model_name, limit, served) ==
    /\ th[t].pc = "idle"
    /\ memory_embeddings' = memory_embeddings
    /\ IF Len(query_embedding) # VectorDimension
       THEN VectorReturn(t, "search_similar", query_embedding, "invalid", <<>>)
       ELSE IF \A i \in 1..max_attempts : ~HasCosineSimilarity(served[i])
       THEN VectorReturn(t, "search_similar", query_embedding, "db_error", <<>>)
       ELSE LET similarity(r) ==
                    cosine_similarity(memory_embeddings[r.id].embedding, query_embedding)
                hits == {r \in Candidates(model_name, now) :
                            similarity(r) >= SimilarityThreshold}
            IN  \E q \in UNION {[1..n -> {r.id : r \in hits}] : n \in 0..Cardinality(hits)} :
                   /\ Ranked(hits, similarity, limit, q)
                   /\ VectorReturn(t, "search_similar", query_embedding, "ok", q)

\* VectorSearchEngine::hybrid_search.  Its statement joins memories_fts under
\* the alias fts and writes fts MATCH ?4; SQLite knows the hidden column by
\* the table's name only, so the statement is prepared on no connection and
\* every attempt fails, whatever the arguments.
hybrid_search(t, text_query, vector_query, model_name, text_weight, vector_weight, limit) ==
    /\ th[t].pc = "idle"
    /\ memory_embeddings' = memory_embeddings
    /\ VectorReturn(t, "hybrid_search", vector_query, "db_error", <<>>)

StoredIds == {r.id : r \in memories}

InitVector == InitWith(MainConfig, DefaultPolicy, 1..MaxVectorIds)

NextVector ==
    \/ \E t \in Threads : CreateSession(t, "u1")
    \/ \E t \in Threads, m \in {ApplePie, Faint} :
           RowidsLeft(MaxVectorRowid) /\ SaveMemory(t, m)
    \/ \E t \in Threads : TxStatement(t)
    \/ \E t \in Threads : TxCommit(t)
    \/ \E t \in Threads, id \in 1..MaxVectorIds : DeleteMemory(t, id)
    \/ \E t \in Threads, id \in 1..MaxVectorIds :
           RowidsLeft(MaxVectorRowid) /\ UpdateMemory(t, id, Overboost)
    \/ \E t \in Threads, id \in 1..MaxVectorIds, v \in Vectors, mn \in ModelNames :
           store_embedding(t, id, v, mn)
    \/ \E t \in Threads, id \in 1..MaxVectorIds : delete_embedding(t, id)
    \/ \E t \in Threads, v \in Vectors, mn \in ModelNames, limit \in {NoValue, 1},
          served \in Servings :
           search_similar(t, v, mn, limit, served)
    \/ \E t \in Threads, tok \in {"apple", "banana"}, v \in Vectors,
          tw \in Weights, vw \in Weights :
           hybrid_search(t, tok, v, "m1", tw, vw, NoValue)

SpecVector == InitVector /\ [][NextVector]_vars

VectorCall(t) ==
    /\ th[t].pc = "idle" /\ th'[t].pc = "idle"
    /\ result'[t].kind \in {"store_embedding", "search_similar", "hybrid_search"}
    /\ result'[t].status # "pending"
    /\ UNCHANGED <<memories, fts, th>>

\* C34: store_embedding, search_similar and hybrid_search return a
\* dimension-mismatch error when the vector's length differs from the index
\* dimension, and a rejected store_embedding leaves the stored embeddings
\* unchanged.
C34_DimensionChecked ==
    [][\A t \in Threads :
         (VectorCall(t) /\ result'[t].dimension # VectorDimension)
            => /\ result'[t].status = "invalid"
               /\ memory_embeddings' = memory_embeddings]_vars

(***************************************************************************)
(* Schema versions (database/schema.rs).  The value stored under            *)
(* schema_version is kept as the number its decimal text parses to.         *)
(***************************************************************************)
SCHEMA_VERSION_KEY == "schema_version"

\* get_migrations: the versions of the migrations, in order.
get_migrations == <<1>>

get_schema_version(cfg) ==
    IF SCHEMA_VERSION_KEY \in DOMAIN cfg THEN cfg[SCHEMA_VERSION_KEY] ELSE 0

set_schema_version(cfg, version) ==
    [k \in DOMAIN cfg \cup {SCHEMA_VERSION_KEY} |->
        IF k = SCHEMA_VERSION_KEY THEN version ELSE cfg[k]]

latest_version == Max({0} \cup Ran(get_migrations))

\* The steps of the schema calls leave all but system_config, the thread
\* and its result.
SchemaFrame ==
    UNCHANGED <<memories, fts, sessions, users, memory_embeddings, INSTANCES,
                INSTANCE_COUNTER, issued, tokens_granted, now, ticks,
                limiter, config, policy, rd, recursive_triggers, id_pool,
                faults, accepted>>

SchemaResult(t, kind, status) ==
    result' = [result EXCEPT ![t] =
        [NoResult EXCEPT !.kind = kind, !.status = status,
                         !.count = get_schema_version(system_config')]]

\* schema::run_migrations up to its loop: get_schema_version reads the
\* version in autocommit mode, outside every transaction, and the call
\* returns when no migration is above it.
run_migrations(t) ==
    LET current_version == get_schema_version(system_config)
    IN  /\ th[t].pc = "idle"
        /\ system_config' = system_config
        /\ IF current_version >= latest_version
           THEN /\ th' = th
                /\ SchemaResult(t, "run_migrations", "ok")
           ELSE /\ th' = [th EXCEPT ![t] =
                       [IdleThread EXCEPT !.pc = "migrate", !.kind = "run_migrations",
                                          !.count = current_version, !.step = 1]]
                /\ Pending(t, "run_migrations")
        /\ SchemaFrame

\* A commit to system_config by connection t ends the read snapshot of every
\* other connection whose migration has begun its transaction and not yet
\* written (attempts = 0 marks the snapshot as ended).
EndSnapshots(f, t) ==
    [w \in DOMAIN f |->
        IF w # t /\ f[w].pc = "migrate_tx" THEN [f[w] EXCEPT !.attempts = 0]
        ELSE f[w]]

\* The end of a turn of the loop of run_migrations: the next migration, or
\* Ok(()) after the last.  f is the state of the connections after the turn.
MigrateNext(t, f) ==
    IF th[t].step < Len(get_migrations)
    THEN /\ th' = [f EXCEPT ![t] =
                [th[t] EXCEPT !.pc = "migrate", !.step = @ + 1]]
         /\ UNCHANGED result
    ELSE /\ th' = [f EXCEPT ![t] = IdleThread]
         /\ SchemaResult(t, "run_migrations", "ok")

\* A turn of the loop of run_migrations.  A migration not above the version
\* read at the start is passed over.  For one above it,
\* conn.unchecked_transaction() begins a deferred transaction and
\* tx.execute_batch(&migration.up_sql) runs the schema, index and FTS
\* statements, which create what does not exist yet: on the file of a
\* Database nothing, so that the transaction has read the file (snap is
\* what it has seen) and has written nothing.
MigrateBegin(t) ==
    LET c == th[t]
        version == get_migrations[c.step]
    IN  /\ c.pc = "migrate"
        /\ system_config' = system_config
        /\ IF version > c.count
           THEN /\ th' = [th EXCEPT ![t] =
                       [c EXCEPT !.pc = "migrate_tx", !.snap = Storage,
                                 !.attempts = 1]]
                /\ UNCHANGED result
           ELSE MigrateNext(t, th)
        /\ SchemaFrame

\* The file has been written since the transaction of c read it.
SnapshotEnded(c) == c.snap # Storage \/ c.attempts = 0

\* set_schema_version(&tx, migration.version), the first write of the
\* transaction.  A transaction that has read cannot wait for the write lock:
\* while another connection holds it, or when another connection has
\* committed since the read, the statement returns database is locked;
\* run_migrations returns the error and the transaction is rolled back when
\* it is dropped.  Otherwise the connection holds the write lock until its
\* commit.
MigrateSetVersion(t) ==
    LET c == th[t]
    IN  /\ c.pc = "migrate_tx"
        /\ system_config' = system_config
        /\ IF (\E w \in DOMAIN th \ {t} : HoldsWriteLock(th[w])) \/ SnapshotEnded(c)
           THEN /\ th' = [th EXCEPT ![t] = IdleThread]
                /\ SchemaResult(t, "run_migrations", "db_error")
           ELSE /\ th' = [th EXCEPT ![t] = [c EXCEPT !.pc = "migrate_commit"]]
                /\ UNCHANGED result
        /\ SchemaFrame

\* tx.commit(): the version of the migration becomes the stored one, and the
\* loop goes on.
MigrateCommit(t) ==
    LET c == th[t]
        version == get_migrations[c.step]
    IN  /\ c.pc = "migrate_commit"
        /\ system_config' = set_schema_version(system_config, version)
        /\ MigrateNext(t, EndSnapshots(th, t))
        /\ SchemaFrame

\* schema::set_schema_version called on a connection of its own.
SetSchemaVersion(t, version) ==
    /\ th[t].pc = "idle"
    /\ \A w \in DOMAIN th \ {t} : ~HoldsWriteLock(th[w])
    /\ system_config' = set_schema_version(system_config, version)
    /\ th' = EndSnapshots(th, t)
    /\ SchemaResult(t, "set_schema_version", "ok")
    /\ SchemaFrame

\* Database::new on the file of an earlier Database.  ConnectionPool::new
\* initialises each connection with conn.execute of its PRAGMAs; executes
\* tells whether execute accepts a statement that returns a row, as
\* PRAGMA journal_mode, busy_timeout and mmap_size do.  Where it does not,
\* no connection is made, the pool is not built and nothing is created.
\* Where it does, the schema, index and FTS statements create what does not
\* exist yet and nothing else is executed.  Every other specification starts
\* from a Database whose pool was built.
Database_new(t, executes) ==
    /\ th[t].pc = "idle"
    /\ system_config' = system_config
    /\ th' = th
    /\ SchemaResult(t, "open", IF executes THEN "ok" ELSE "db_error")
    /\ SchemaFrame

InitSchema == InitThreads(MainConfig, DefaultPolicy, 1..MaxSchemaIds, Writers)

NextSchema ==
    \/ \E t \in Writers : CreateSession(t, "u1")
    \/ \E t \in Writers :
           RowidsLeft(MaxSchemaRowid) /\ id_pool # {} /\ SaveMemory(t, ApplePie)
    \/ \E t \in Writers : TxStatement(t)
    \/ \E t \in Writers : TxCommit(t)
    \/ \E t \in Writers, executes \in BOOLEAN : Database_new(t, executes)
    \/ \E t \in Writers : run_migrations(t)
    \/ \E t \in Writers : MigrateBegin(t)
    \/ \E t \in Writers : MigrateSetVersion(t)
    \/ \E t \in Writers : MigrateCommit(t)
    \/ \E t \in Writers, version \in 0..latest_version : SetSchemaVersion(t, version)

SpecSchema == InitSchema /\ [][NextSchema]_vars

\* C35: opening a database applies every migration above the stored
\* schema_version (missing counts as 0), so that afterwards schema_version is
\* the highest migration version; no step of an open or of the migrations
\* lowers schema_version, and running the migrations again changes nothing.
C35_MigratedOnOpen ==
    [][/\ (\A t \in Writers, version \in 0..latest_version :
               ~SetSchemaVersion(t, version))
             => get_schema_version(system_config') >= get_schema_version(system_config)
       /\ \A t \in Writers :
             Database_new(t, TRUE)
                => get_schema_version(system_config') = latest_version
       /\ \A t \in Writers :
             (run_migrations(t) /\ get_schema_version(system_config) = latest_version)
                => /\ system_config' = system_config
                   /\ th'[t].pc = "idle"
                   /\ result'[t].status = "ok"]_vars

(***************************************************************************)
(* The handle ABI (lib.rs).  An instance is a SimpleDatabase on the file    *)
(* its configuration names: a connection of its own, without the PRAGMAs of *)
(* the pool, so that foreign keys are not enforced on it.  The inits of a   *)
(* run name one file, either the file of a Database or a file of their own, *)
(* which SimpleDatabase::new creates with the plain memories table: no      *)
(* index and no FTS table.  An init takes the counter's value with          *)
(* fetch_add and afterwards locks the map to insert it.  The counter is     *)
(* capped at MaxHandles, far below the width of usize.                      *)
(***************************************************************************)
Callers == {1, 2}

\* DatabaseConfig::default().path, the file of the Database.
DatabasePath == "mindcache.db"

\* A file no Database has opened.
OwnPath == "ffi.db"

\* MindCacheConfig with the database_path the inits pass.
FfiConfig(database_path) ==
    [enable_request_limits |-> MainConfig.enable_request_limits,
     max_requests_per_minute |-> MainConfig.max_requests_per_minute,
     max_batch_size |-> MainConfig.max_batch_size,
     database_path |-> database_path]

\* The instances' file carries the schema of Database::new.
OnDatabaseFile == config.database_path = DatabasePath

instances_clear(instances, handle) == {}

\* HashMap::remove.
instances_remove(instances, handle) == instances \ {handle}

\* mindcache_is_valid.
mindcache_is_valid(instances, handle) ==
    IF handle = 0 THEN FALSE ELSE handle \in instances

\* What a call of the ABI leaves alone besides the map, the counter, the
\* tables of memories and the thread.
FfiFrame ==
    UNCHANGED <<sessions, users, memory_embeddings, system_config,
                tokens_granted, now, ticks, limiter, config, policy, rd,
                recursive_triggers, faults, accepted>>

FfiResult(t, kind, handle, status) ==
    result' = [result EXCEPT ![t] =
        [NoResult EXCEPT !.kind = kind, !.id = handle, !.status = status]]

\* mindcache_init_with_config up to INSTANCE_COUNTER.fetch_add; created is
\* whether the configuration parsed and SimpleDatabase::new returned Ok.
\* Without it 0 is returned and the counter is not used.
mindcache_init_with_config(t, created) ==
    /\ th[t].pc = "idle"
    /\ INSTANCE_COUNTER <= MaxHandles
    /\ IF created
       THEN /\ INSTANCE_COUNTER' = INSTANCE_COUNTER + 1
            /\ th' = [th EXCEPT ![t] =
                   [IdleThread EXCEPT !.pc = "init", !.kind = "init",
                                      !.id = INSTANCE_COUNTER]]
            /\ Pending(t, "init")
       ELSE /\ UNCHANGED <<INSTANCE_COUNTER, th>>
            /\ FfiResult(t, "init", 0, "error")
    /\ UNCHANGED <<INSTANCES, issued, memories, fts, id_pool>>
    /\ FfiFrame

\* The rest of mindcache_init_with_config: INSTANCES.lock(),
\* instances.insert(instance_id, database), and the id is returned.
InstancesInsert(t) ==
    LET instance_id == th[t].id
    IN  /\ th[t].pc = "init"
        /\ INSTANCES' = INSTANCES \cup {instance_id}
        /\ issued' = issued \cup {instance_id}
        /\ th' = [th EXCEPT ![t] = IdleThread]
        /\ FfiResult(t, "init", instance_id, "ok")
        /\ UNCHANGED <<INSTANCE_COUNTER, memories, fts, id_pool>>
        /\ FfiFrame

IsValid(t, handle) ==
    /\ th[t].pc = "idle"
    /\ UNCHANGED <<INSTANCES, INSTANCE_COUNTER, issued, memories, fts, id_pool, th>>
    /\ FfiResult(t, "is_valid", handle,
                 IF mindcache_is_valid(INSTANCES, handle) THEN "true" ELSE "false")
    /\ FfiFrame

mindcache_destroy(t, handle) ==
    /\ th[t].pc = "idle"
    /\ INSTANCES' = IF handle = 0 THEN INSTANCES
                    ELSE instances_remove(INSTANCES, handle)
    /\ UNCHANGED <<INSTANCE_COUNTER, issued, memories, fts, id_pool, th>>
    /\ FfiResult(t, "destroy", handle, "ok")
    /\ FfiFrame

\* The MemoryItem mindcache_save builds from its arguments: the id empty, both
\* timestamps its now, the importance clamped, a TTL kept when above 0.
SavedItem(user_id, session_id, content, importance, ttl_hours, t) ==
    [MemoryItem_default(t) EXCEPT
        !.user_id = user_id, !.session_id = session_id, !.content = content,
        !.importance = clamp(importance),
        !.ttl_hours = IF ttl_hours > 0 THEN ttl_hours ELSE NoValue]

\* mindcache_save, through SimpleDatabase::save_memory: no validation, always
\* a new uuid, one INSERT in autocommit mode, and any failure gives a null
\* result.  On the file of a Database the insert trigger of the FTS table
\* adds the tokens and a row with an expires_at is refused by
\* idx_memories_active; on a file of its own the row is all that is written.
mindcache_save(t, handle, user_id, session_id, content, importance, ttl_hours) ==
    LET memory == SavedItem(user_id, session_id, content, importance, ttl_hours, now)
    IN  /\ th[t].pc = "idle"
        /\ IF \/ ~mindcache_is_valid(INSTANCES, handle)
              \/ OnDatabaseFile /\ ~IndexAccepts(MemoryRow(memory, EmptyId, now))
              \/ \E w \in DOMAIN th \ {t} : HoldsWriteLock(th[w])
           THEN /\ UNCHANGED <<memories, fts, id_pool>>
                /\ FfiResult(t, "ffi_save", handle, "error")
           ELSE \E memory_id \in new_v4(id_pool) :
                  LET row == [MemoryRow(memory, memory_id, now) EXCEPT
                                  !.rowid = NextRowid(memories)]
                  IN  /\ memories' = memories \cup {row}
                      /\ fts' = IF OnDatabaseFile
                                THEN fts \cup FtsEntries(row.rowid, row.content)
                                ELSE fts
                      /\ id_pool' = id_pool \ {memory_id}
                      /\ result' = [result EXCEPT ![t] =
                             [NoResult EXCEPT !.kind = "ffi_save", !.id = handle,
                                              !.status = "ok", !.results = <<memory_id>>]]
        /\ UNCHANGED <<INSTANCES, INSTANCE_COUNTER, issued, th>>
        /\ FfiFrame

Handles == 0..MaxHandles

\* SimpleDatabase::get_memory: SELECT ... FROM memories WHERE id = ?1, with
\* no condition on expires_at.
SimpleDatabase_get_memory(rows, memory_id) == {r \in rows : r.id = memory_id}

\* SimpleDatabase::recall_memories with QueryFilter::default(): no WHERE
\* condition, ORDER BY created_at DESC, LIMIT 50 OFFSET 0.  The orders of the
\* ids SQLite may return, rows of one created_at in either order.
SimpleDatabase_recall_memories(rows) ==
    {SubSeq(s, 1, MinOf(Len(s), DefaultLimit)) :
        s \in {q \in [1..Cardinality(rows) -> {r.id : r \in rows}] :
                  /\ \A i, j \in DOMAIN q : i # j => q[i] # q[j]
                  /\ \A i, j \in DOMAIN q : i < j =>
                        \A a, b \in rows :
                           (a.id = q[i] /\ b.id = q[j]) => a.created_at >= b.created_at}}

\* What a read of the ABI leaves alone: everything but the caller's result.
FfiReadFrame ==
    /\ UNCHANGED <<INSTANCES, INSTANCE_COUNTER, issued, memories, fts, id_pool, th>>
    /\ FfiFrame

\* mindcache_get_memory: null for handle 0, a handle not in the map and an
\* id without a row, and otherwise the memory as JSON.
mindcache_get_memory(t, handle, memory_id) ==
    LET found == IF mindcache_is_valid(INSTANCES, handle)
                 THEN SimpleDatabase_get_memory(memories, memory_id)
                 ELSE {}
    IN  /\ th[t].pc = "idle"
        /\ result' = [result EXCEPT ![t] =
               [NoResult EXCEPT !.kind = "ffi_get", !.id = memory_id,
                                !.status = IF found = {} THEN "null" ELSE "ok",
                                !.results = IF found = {} THEN <<>>
                                            ELSE <<memory_id>>]]
        /\ FfiReadFrame

\* mindcache_recall with a null filter: the page of the recall, and the empty
\* response for handle 0 and a handle not in the map.
mindcache_recall(t, handle) ==
    /\ th[t].pc = "idle"
    /\ IF mindcache_is_valid(INSTANCES, handle)
       THEN \E data \in SimpleDatabase_recall_memories(memories) :
               result' = [result EXCEPT ![t] =
                   [NoResult EXCEPT !.kind = "ffi_recall", !.status = "ok",
                                    !.results = data]]
       ELSE result' = [result EXCEPT ![t] =
                [NoResult EXCEPT !.kind = "ffi_recall", !.status = "empty"]]
    /\ FfiReadFrame

\* mindcache_update_memory: the body is `false`.
mindcache_update_memory(t, handle, memory_id) ==
    /\ th[t].pc = "idle"
    /\ result' = [result EXCEPT ![t] =
           [NoResult EXCEPT !.kind = "ffi_update", !.id = memory_id,
                            !.status = "false"]]
    /\ FfiReadFrame

\* mindcache_delete_memory: the body is `false`.
mindcache_delete_memory(t, handle, memory_id) ==
    /\ th[t].pc = "idle"
    /\ result' = [result EXCEPT ![t] =
           [NoResult EXCEPT !.kind = "ffi_delete", !.id = memory_id,
                            !.status = "false"]]
    /\ FfiReadFrame

\* Handle, content and ttl_hours of the saves: empty content without a TTL,
\* and a word with a TTL of one hour.
SaveArguments == {<<1, {}, 0>>, <<1, {"apple"}, 1>>}

\* No user is on the file, whichever it is.
InitFfi ==
    /\ \E database_path \in {DatabasePath, OwnPath} :
          InitThreads(FfiConfig(database_path), DefaultPolicy, 1..MaxFfiIds, Callers)
    /\ users = {}

NextFfi ==
    \/ \E t \in Callers, created \in BOOLEAN : mindcache_init_with_config(t, created)
    \/ \E t \in Callers : InstancesInsert(t)
    \/ \E t \in Callers, h \in Handles : IsValid(t, h)
    \/ \E t \in Callers, h \in Handles : mindcache_destroy(t, h)
    \/ \E t \in Callers, a \in SaveArguments :
           /\ id_pool # {}
           /\ mindcache_save(t, a[1], "u1", "s1", a[2], 70 * Tenth, a[3])

SpecFfi == InitFfi /\ [][NextFfi]_vars

\* Caller t's call of the given kind returns in this step.
FfiCall(t, kind) ==
    /\ result'[t] # result[t]
    /\ result'[t].kind = kind /\ result'[t].status # "pending"

\* C36: an init returns 0 on failure and otherwise a non-zero handle that no
\* earlier init returned; is_valid(h) is true from the init that returned h
\* until destroy(h), false afterwards and for handle 0 and handles never
\* returned; destroying one handle leaves every other handle as it was.
C36_HandleAbi ==
    [][/\ \A t \in Callers :
            /\ FfiCall(t, "init") =>
                  IF result'[t].status = "ok"
                  THEN /\ result'[t].id # 0
                       /\ result'[t].id \notin issued
                       /\ mindcache_is_valid(INSTANCES', result'[t].id)
                  ELSE result'[t].id = 0 /\ INSTANCES' = INSTANCES
            /\ FfiCall(t, "is_valid") =>
                  /\ (result'[t].status = "true")
                        = (/\ result'[t].id \in issued
                           /\ mindcache_is_valid(INSTANCES, result'[t].id))
                  /\ result'[t].id = 0 => result'[t].status = "false"
            /\ FfiCall(t, "destroy") => ~mindcache_is_valid(INSTANCES', result'[t].id)
       /\ \A h \in Handles :
            /\ (mindcache_is_valid(INSTANCES, h) /\ ~mindcache_is_valid(INSTANCES', h))
                  => \E t \in Callers : mindcache_destroy(t, h)
            /\ (~mindcache_is_valid(INSTANCES, h) /\ mindcache_is_valid(INSTANCES', h))
                  => /\ h \notin issued
                     /\ \E t \in Callers : FfiCall(t, "init") /\ result'[t].id = h
            /\ mindcache_is_valid(INSTANCES, h) => h \in issued]_vars

\* One handle is live, another was destroyed and its caller was told so, and
\* a save through a handle stored an empty content with the importance
\* clamped to 1.
C36_Witness ==
    /\ INSTANCES # {}
    /\ \E h \in issued \ INSTANCES :
          result[1].kind = "is_valid" /\ result[1].id = h /\ result[1].status = "false"
    /\ \E r \in memories : r.importance = ImportanceMax /\ r.content = {}

(***************************************************************************)
(* Memories with a TTL in the handle ABI: one caller saves through a       *)
(* handle, hours pass, and the memories are read back.                      *)
(***************************************************************************)
InitAbi ==
    /\ \E database_path \in {DatabasePath, OwnPath} :
          InitThreads(FfiConfig(database_path), DefaultPolicy, 1..MaxFfiIds, Threads)
    /\ users = {}

\* The ids asked for: the ids a save can return, and the empty string.
AbiIds == {EmptyId} \cup (1..MaxFfiIds)

NextAbi ==
    \/ \E t \in Threads, created \in BOOLEAN : mindcache_init_with_config(t, created)
    \/ \E t \in Threads : InstancesInsert(t)
    \/ \E t \in Threads, a \in SaveArguments :
           /\ id_pool # {}
           /\ mindcache_save(t, a[1], "u1", "s1", a[2], 5 * Tenth, a[3])
    \/ \E t \in Threads, h \in Handles, id \in AbiIds : mindcache_get_memory(t, h, id)
    \/ \E t \in Threads, h \in Handles : mindcache_recall(t, h)
    \/ \E t \in Threads, h \in Handles, id \in AbiIds :
           mindcache_update_memory(t, h, id)
    \/ \E t \in Threads, h \in Handles, id \in AbiIds :
           mindcache_delete_memory(t, h, id)
    \/ \E d \in {HourMinutes, 2 * HourMinutes} : Tick(d)

SpecAbi == InitAbi /\ [][NextAbi]_vars

\* The instant of expires_at has been reached.
PastExpiry(r, t) == r.expires_at # NoValue /\ r.expires_at <= t

\* C1: a memory whose expires_at <= now is invisible to reads: get_memory on
\* its id returns None and no recall page contains it.
C1_ExpiredInvisible ==
    [][\A t \in Threads :
         (FfiCall(t, "ffi_get") \/ FfiCall(t, "ffi_recall")) =>
            \A i \in DOMAIN result'[t].results :
               \A r \in memories :
                  r.id = result'[t].results[i] => ~PastExpiry(r, now)]_vars

\* C12: get_memory, update_memory and delete_memory called with an id that is
\* missing or expired return not-found (null / false), not an error, and
\* leave every stored memory unchanged.
C12_NotFound ==
    [][\A t \in Threads :
         /\ FfiCall(t, "ffi_get") =>
               /\ memories' = memories
               /\ (\A r \in memories : r.id = result'[t].id => PastExpiry(r, now))
                      => result'[t].status = "null"
         /\ (FfiCall(t, "ffi_update") \/ FfiCall(t, "ffi_delete")) =>
               /\ memories' = memories
               /\ (\A r \in memories : r.id = result'[t].id => PastExpiry(r, now))
                      => result'[t].status = "false"]_vars

(***************************************************************************)
(* RateLimiter::try_acquire run by several threads on one limiter, while   *)
(* the clock may advance by a minute.                                       *)
(***************************************************************************)
Acquirers == 1..MaxAcquirers

InitAcquire == InitThreads(LimiterConfig, DefaultPolicy, 1..MaxIds, Acquirers)

NextAcquire ==
    \/ \E t \in Acquirers, n \in 1..2 : AcquireNow(t, "memory", n)
    \/ \E t \in Acquirers : AcquireLock(t)
    \/ \E t \in Acquirers, overflow_checks \in BOOLEAN : RefillStore(t, overflow_checks)
    \/ \E t \in Acquirers : AcquireLoad(t)
    \/ \E t \in Acquirers : AcquireStore(t)
    \/ Tick(1)

SpecAcquire == InitAcquire /\ [][NextAcquire]_vars

\* C37: when several threads call try_acquire on one limiter and no refill
\* happens, the tokens granted in total never exceed the tokens the limiter
\* held at the start.
C37_NoOverGrant ==
    ticks = 0 => tokens_granted <= LimiterConfig.max_requests_per_minute

(***************************************************************************)
(* Updates and deletes of one memory by two threads.  update_memory reads   *)
(* the item when it is called and writes the whole item back in its own     *)
(* write transaction.                                                       *)
(***************************************************************************)
InitRace == InitThreads(MainConfig, DefaultPolicy, 1..MaxRaceIds, Writers)

NextRace ==
    \/ \E t \in Writers, u \in UserIds : CreateSession(t, u)
    \/ \E t \in Writers : id_pool # {} /\ SaveMemory(t, ApplePie)
    \/ \E t \in Writers, id \in 1..MaxRaceIds, u \in {ToBanana, Overboost} :
           RowidsLeft(MaxRaceRowid) /\ UpdateMemory(t, id, u)
    \/ \E t \in Writers, id \in 1..MaxRaceIds : DeleteMemory(t, id)
    \/ \E t \in Writers : TxStatement(t)
    \/ \E t \in Writers : TxCommit(t)

SpecRace == InitRace /\ [][NextRace]_vars

UpdateCommits(t) ==
    /\ th[t].pc = "tx" /\ th[t].kind = "update"
    /\ th[t].step = StatementCount(th[t].tx)
    /\ th'[t].pc = "idle"

\* C38: two concurrent update_memory calls on one memory that change
\* different fields both take effect: the commit of an update leaves every
\* field the update does not set as it was committed just before.
C38_NoLostUpdate ==
    [][\A t \in Writers :
         UpdateCommits(t) =>
            \A r \in memories, w \in memories' :
               (r.id = th[t].id /\ w.id = th[t].id) =>
                  /\ "content" \notin th[t].updates.set => w.content = r.content
                  /\ "importance" \notin th[t].updates.set => w.importance = r.importance
                  /\ "metadata" \notin th[t].updates.set => w.metadata = r.metadata
                  /\ "ttl_hours" \notin th[t].updates.set =>
                        w.ttl_hours = r.ttl_hours /\ w.expires_at = r.expires_at]_vars

DeletedFor(id) ==
    \E t \in Writers :
        result[t].kind = "delete" /\ result[t].status = "ok" /\ result[t].id = id

\* C39: once delete_memory(id) has returned true, no update_memory running
\* concurrently writes the memory back: get_memory(id) stays None.
C39_DeletedStaysDeleted ==
    [][\A id \in 1..MaxRaceIds :
         (DeletedFor(id) /\ get_memory(Storage, id, now) = {})
            => get_memory(Storage', id, now) = {}]_vars

(***************************************************************************)
(* One caller filling a session with more memories than a page of the      *)
(* default size holds.  The caller names the ids: 1, 2, ...                *)
(***************************************************************************)
MaxPageRowid == 51

InitPages == InitWith(MainConfig, DefaultPolicy, 1..MaxPageRowid)

NextPages ==
    \/ \E t \in Threads : CreateSession(t, "u1")
    \/ \E t \in Threads :
           /\ RowidsLeft(MaxPageRowid)
           /\ SaveMemory(t, [ApplePie EXCEPT !.id = NextRowid(memories)])
    \/ \E t \in Threads : TxStatement(t)
    \/ \E t \in Threads : TxCommit(t)

SpecPages == InitPages /\ [][NextPages]_vars

\* C40: in every recall response has_next is true iff a matching row lies
\* beyond the returned page (offset + returned rows < total_count) and
\* has_prev is true iff offset > 0; a filter without offset starts at 0.
C40_PageFlags ==
    \A f \in Filters, pd \in BOOLEAN :
        LET response == recall_memories(Storage, f, now, pd)
            offset == IF f.offset = NoValue THEN 0 ELSE f.offset
        IN  ~response.error =>
               /\ response.has_next = (offset + Len(response.data) < response.total_count)
               /\ response.has_prev = (offset > 0)
====
